---- MODULE Spec2Model ----
(***************************************************************************)
(* Model of the MCPP core of ajay-rg-8583/mcpp-server: the data cache, the *)
(* policy evaluator (mcpp-validation), the consent cache (mcpp-consent)    *)
(* and the four mcpp/* endpoint handlers (mcpp-endpoints).                 *)
(*                                                                         *)
(* Strings that the code inspects character by character (destinations,    *)
(* trusted domains) are sequences of one-character strings.  Optional      *)
(* fields are tagged records: k = "absent" stands for undefined.           *)
(***************************************************************************)
EXTENDS Integers, Sequences, FiniteSets, TLC

\* ------------------------------------------------------------------ bounds

\* Largest clock value, in clock steps of TickMs.
MaxTicks == 3
\* Number of consent-request ids the evaluator may mint in one behaviour.
MaxRequestId == 2
\* Number of promises storePendingRequest may create in one behaviour.
MaxPromises == 2
\* The same, in the consent flow of the server.
MaxFlowPromises == 1

\* ------------------------------------------------------- program constants

\* SIMILARITY_THRESHOLD = 0.7, in thousandths.
SIMILARITY_THRESHOLD == 700
\* getConsent / cleanupExpiredEntries: duration_minutes * 60 * 1000
SecondsPerMinute == 60
MsPerSecond == 1000
\* The clock advances in steps of half a minute.
TickMs == 30000

\* ------------------------------------------------------------ string values

EndsWith(s, suffix) ==
    /\ Len(s) >= Len(suffix)
    /\ SubSeq(s, Len(s) - Len(suffix) + 1, Len(s)) = suffix

StartsWith(s, prefix) ==
    /\ Len(s) >= Len(prefix)
    /\ SubSeq(s, 1, Len(prefix)) = prefix

Range(f) == { f[i] : i \in DOMAIN f }

\* The destination and domain strings of defaultMcppConfig, and two
\* destinations under the domain *.company.com.
Dest ==
    [dash |->
         <<"d", "a", "s", "h">>,
     gpt4 |->
         <<"g", "p", "t", "-", "4">>,
     claude3 |->
         <<"c", "l", "a", "u", "d", "e", "-", "3">>,
     gpt35 |->
         <<"g", "p", "t", "-", "3", ".", "5", "-", "t", "u", "r", "b",
          "o">>,
     internal_llm |->
         <<"i", "n", "t", "e", "r", "n", "a", "l", "_", "l", "l", "m">>,
     llama2 |->
         <<"l", "l", "a", "m", "a", "-", "2">>,
     localhost |->
         <<"l", "o", "c", "a", "l", "h", "o", "s", "t">>,
     internal_analytics |->
         <<"i", "n", "t", "e", "r", "n", "a", "l", "_", "a", "n", "a",
          "l", "y", "t", "i", "c", "s">>,
     analytics_server |->
         <<"a", "n", "a", "l", "y", "t", "i", "c", "s", "_", "s", "e",
          "r", "v", "e", "r">>,
     backup_service |->
         <<"b", "a", "c", "k", "u", "p", "_", "s", "e", "r", "v", "i",
          "c", "e">>,
     partner_crm |->
         <<"p", "a", "r", "t", "n", "e", "r", "_", "c", "r", "m">>,
     external_api |->
         <<"e", "x", "t", "e", "r", "n", "a", "l", "_", "a", "p", "i">>,
     public_service |->
         <<"p", "u", "b", "l", "i", "c", "_", "s", "e", "r", "v", "i",
          "c", "e">>,
     company_domain |->
         <<"*", ".", "c", "o", "m", "p", "a", "n", "y", ".", "c", "o",
          "m">>,
     internal_domain |->
         <<"*", ".", "i", "n", "t", "e", "r", "n", "a", "l">>,
     api_company |->
         <<"a", "p", "i", ".", "c", "o", "m", "p", "a", "n", "y", ".",
          "c", "o", "m">>,
     evilcompany |->
         <<"e", "v", "i", "l", "c", "o", "m", "p", "a", "n", "y", ".",
          "c", "o", "m">>]

\* target.destination?: string | string[]
NoDestination == [k |-> "absent", s |-> << >>, a |-> << >>]
StrDest(s) == [k |-> "string", s |-> s, a |-> << >>]
ArrDest(a) == [k |-> "array", s |-> << >>, a |-> a]

\* JavaScript truthiness of target.destination: undefined and "" are falsy,
\* every array is truthy.
Truthy(destination) ==
    \/ destination.k = "array"
    \/ destination.k = "string" /\ destination.s # << >>

\* Array.prototype.includes(destination) on a list of strings: an array
\* argument is never equal to a string element.
Includes(list, destination) ==
    destination.k = "string" /\ destination.s \in list

\* ------------------------------------------------------------------ types

DataUsage == <<"display", "process", "store", "transfer">>
DataUsages == Range(DataUsage)


AbsentList == [k |-> "absent", l |-> {}]
AllList == [k |-> "all", l |-> {}]
NoneList == [k |-> "none", l |-> {}]
ListOf(l) == [k |-> "list", l |-> l]

NoUsagePermissions == [u \in DataUsages |-> "absent"]

\* tool?.name || 'unknown'
NameUnknown == <<"u", "n", "k", "n", "o", "w", "n">>

\* tool === undefined
NoTool ==
    [present |-> FALSE, name |-> NameUnknown, isSensitive |-> FALSE,
     usage |-> NoUsagePermissions,
     hasTargetPermissions |-> FALSE,
     blocked_targets |-> {}, allowed_targets |-> AbsentList,
     blocked_servers |-> {}, allowed_servers |-> AbsentList,
     allowed_clients |-> AbsentList,
     hasOverrides |-> FALSE, always_require_consent |-> FALSE,
     never_require_consent |-> FALSE, custom_consent_message |-> "absent",
     allowed_without_consent |-> {}]

NoCategory ==
    [present |-> FALSE, type |-> "other", category |-> "public",
     trust_level |-> "low", requires_consent |-> TRUE,
     data_retention |-> "absent"]

Category(type, category, trust, consent, retention) ==
    [present |-> TRUE, type |-> type, category |-> category,
     trust_level |-> trust, requires_consent |-> consent,
     data_retention |-> retention]

\* ------------------------------------------------------ policy evaluator

\* Index of a usage level in the hierarchy display < process < store < transfer.
LevelOf(usage) == CHOOSE i \in DOMAIN DataUsage : DataUsage[i] = usage

\* Higher level grants lower level access.
validateDataUsage(required, granted) == LevelOf(granted) >= LevelOf(required)

\* Tool-specific permission first, then the server's global policy.
getEffectiveDataUsagePermission(tool, dataUsage, serverConfig) ==
    IF tool.present /\ tool.usage[dataUsage] # "absent"
    THEN tool.usage[dataUsage]
    ELSE serverConfig.default_data_usage_policy[dataUsage]

Denied(reason) == [allowed |-> FALSE, reason |-> reason]

Pass == <<"pass">>

\* An allow-list field of a tool policy: absent and 'all' pass, 'none'
\* denies, a list must contain the destination.
ListVerdict(list, destination, notInList, none) ==
    IF list.k = "list"
    THEN (IF ~Includes(list.l, destination) THEN notInList ELSE Pass)
    ELSE IF list.k = "none" THEN none
    ELSE Pass

\* The tool-specific part: unified controls first, then the legacy
\* type-specific controls.
ToolTargetVerdict(tool, target) ==
    LET destination == target.destination
        unified == ListVerdict(tool.allowed_targets, destination,
                               <<target.type, "not_in_allowlist">>,
                               <<"no_targets_allowed">>)
        servers == ListVerdict(tool.allowed_servers, destination,
                               <<"server_not_in_allowlist">>,
                               <<"no_servers_allowed">>)
        clients == ListVerdict(tool.allowed_clients, destination,
                               <<"client_not_in_allowlist">>,
                               <<"no_clients_allowed">>)
    IN  IF Includes(tool.blocked_targets, destination)
        THEN <<target.type, "blocked_by_tool">>
        ELSE IF unified # Pass THEN unified
        ELSE IF target.type = "server"
                /\ Includes(tool.blocked_servers, destination)
        THEN <<"server_blocked_by_tool">>
        ELSE IF target.type = "server" /\ servers # Pass THEN servers
        ELSE IF target.type = "client" /\ clients # Pass THEN clients
        ELSE Pass

\* The server's global target policy.
GlobalTargetVerdict(target, serverConfig) ==
    LET globalPolicy == serverConfig.default_target_policy
    IN  IF target.type = "server"
        THEN (IF globalPolicy.server.k = "list"
                 /\ target.destination.k = "string"
              THEN (IF target.destination.s \notin globalPolicy.server.l
                    THEN <<"server_not_in_global_allowlist">>
                    ELSE Pass)
              ELSE IF globalPolicy.server.k = "none"
              THEN <<"no_servers_allowed_globally">>
              ELSE Pass)
        ELSE IF target.type = "llm" /\ globalPolicy.llm = "deny"
        THEN <<"llms_denied_globally">>
        ELSE Pass

validateTargetPermissions(tool, usageContext, serverConfig) ==
    LET target == usageContext.target
        toolVerdict ==
            IF tool.present /\ tool.hasTargetPermissions
               /\ Truthy(target.destination)
            THEN ToolTargetVerdict(tool, target)
            ELSE Pass
        globalVerdict == GlobalTargetVerdict(target, serverConfig)
    IN  IF toolVerdict # Pass THEN Denied(toolVerdict)
        ELSE IF globalVerdict # Pass THEN Denied(globalVerdict)
        ELSE [allowed |-> TRUE, reason |-> <<"validation_passed">>]

\* String(destination) as used for a property key: an array is joined
\* with commas.
RECURSIVE Join(_)
Join(a) ==
    IF a = << >> THEN << >>
    ELSE IF Len(a) = 1 THEN a[1]
    ELSE a[1] \o <<",">> \o Join(Tail(a))

PropertyKey(destination) ==
    IF destination.k = "array" THEN Join(destination.a) ELSE destination.s

\* target_categories?.[destination]
CategoryOf(serverConfig, destination) ==
    IF destination.k # "absent"
       /\ PropertyKey(destination) \in DOMAIN serverConfig.target_categories
    THEN serverConfig.target_categories[PropertyKey(destination)]
    ELSE NoCategory

WildcardPrefix == <<"*", ".">>

\* One iteration of the trusted_domains loop for a string destination.
DomainMatches(domain, s) ==
    IF StartsWith(domain, WildcardPrefix)
    THEN EndsWith(s, SubSeq(domain, 3, Len(domain)))
    ELSE s = domain

NoConsent(reason) ==
    [consent_required |-> FALSE, reason |-> <<reason>>,
     trusted_server |-> TRUE, custom_message |-> "absent",
     consent_cache_key |-> << >>, threw |-> FALSE]

\* The trigger flags of require_consent_for, in the order the code tests
\* them; the reasons accumulate.
ConsentReasons(tool, usageContext, serverConfig, targetInfo) ==
    LET flags == serverConfig.require_consent_for
        target == usageContext.target
    IN  (IF flags.any_transfer /\ usageContext.data_usage = "transfer"
         THEN <<"any_transfer_policy">> ELSE << >>)
        \o (IF flags.sensitive_data_transfer /\ tool.present
               /\ tool.isSensitive
            THEN <<"sensitive_data_transfer">> ELSE << >>)
        \o (IF target.type = "llm" /\ flags.llm_data_access
            THEN <<"llm_data_access_policy">> ELSE << >>)
        \o (IF target.type = "llm" /\ targetInfo.present
               /\ targetInfo.data_retention = "permanent"
            THEN <<"llm_permanent_retention">> ELSE << >>)
        \o (IF target.type = "server" /\ flags.external_server_transfer
               /\ targetInfo.present /\ targetInfo.category = "external"
            THEN <<"external_server_transfer">> ELSE << >>)

\* A variant that also exempts a destination of trust level "high".
TargetConsentByTrust(tool, usageContext, serverConfig) ==
    LET target == usageContext.target
        destination == target.destination
        targetInfo == CategoryOf(serverConfig, destination)
        reasons == ConsentReasons(tool, usageContext, serverConfig, targetInfo)
    IN  IF Includes(serverConfig.trusted_targets, destination)
        THEN NoConsent("trusted_target")
        ELSE IF destination.k = "array"
                /\ \E d \in serverConfig.trusted_domains :
                       StartsWith(d, WildcardPrefix)
        \* destination.endsWith is not a function
        THEN [NoConsent("TypeError") EXCEPT !.threw = TRUE]
        ELSE IF destination.k = "string"
                /\ \E d \in serverConfig.trusted_domains :
                       DomainMatches(d, destination.s)
        THEN NoConsent("trusted_domain")
        ELSE IF targetInfo.present
                /\ (~targetInfo.requires_consent
                    \/ targetInfo.trust_level = "high")
        THEN NoConsent("category_exemption")
        ELSE IF reasons # << >>
        THEN [consent_required |-> TRUE, reason |-> reasons,
              trusted_server |-> FALSE,
              custom_message |->
                  IF tool.present /\ tool.hasOverrides
                     /\ tool.custom_consent_message # "absent"
                  THEN tool.custom_consent_message ELSE "default",
              consent_cache_key |->
                  <<PropertyKey(destination), usageContext.data_usage,
                    target.type>>,
              threw |-> FALSE]
        ELSE NoConsent("no_consent_required")

\* The part of checkConsentRequired under `if (destination)`.
TargetConsent(tool, usageContext, serverConfig) ==
    LET target == usageContext.target
        destination == target.destination
        targetInfo == CategoryOf(serverConfig, destination)
        reasons == ConsentReasons(tool, usageContext, serverConfig, targetInfo)
    IN  IF Includes(serverConfig.trusted_targets, destination)
        THEN NoConsent("trusted_target")
        ELSE IF destination.k = "array"
                /\ \E d \in serverConfig.trusted_domains :
                       StartsWith(d, WildcardPrefix)
        \* destination.endsWith is not a function
        THEN [NoConsent("TypeError") EXCEPT !.threw = TRUE]
        ELSE IF destination.k = "string"
                /\ \E d \in serverConfig.trusted_domains :
                       DomainMatches(d, destination.s)
        THEN NoConsent("trusted_domain")
        ELSE IF targetInfo.present /\ ~targetInfo.requires_consent
        THEN NoConsent("category_exemption")
        ELSE IF reasons # << >>
        THEN [consent_required |-> TRUE, reason |-> reasons,
              trusted_server |-> FALSE,
              custom_message |->
                  IF tool.present /\ tool.hasOverrides
                     /\ tool.custom_consent_message # "absent"
                  THEN tool.custom_consent_message ELSE "default",
              consent_cache_key |->
                  <<PropertyKey(destination), usageContext.data_usage,
                    target.type>>,
              threw |-> FALSE]
        ELSE NoConsent("no_consent_required")

\* A variant that tests always_require_consent before
\* never_require_consent.
checkConsentRequiredAlwaysFirst(tool, usageContext, serverConfig) ==
    LET target == usageContext.target
        destination == target.destination
    IN  IF usageContext.data_usage = "display" /\ target.type = "client"
        THEN NoConsent("display_to_client")
        ELSE IF tool.present /\ tool.hasOverrides
                /\ tool.always_require_consent
        THEN [consent_required |-> TRUE, reason |-> <<"tool_override_always">>,
              trusted_server |-> FALSE,
              custom_message |-> tool.custom_consent_message,
              consent_cache_key |-> << >>, threw |-> FALSE]
        ELSE IF tool.present /\ tool.hasOverrides
                /\ tool.never_require_consent
        THEN NoConsent("tool_override_never")
        ELSE IF tool.present /\ tool.hasOverrides
                /\ Truthy(destination)
                /\ Includes(tool.allowed_without_consent, destination)
        THEN NoConsent("tool_allowed_list")
        ELSE IF Truthy(destination)
        THEN TargetConsent(tool, usageContext, serverConfig)
        ELSE NoConsent("no_consent_required")

checkConsentRequired(tool, usageContext, serverConfig) ==
    LET target == usageContext.target
        destination == target.destination
    IN  IF usageContext.data_usage = "display" /\ target.type = "client"
        THEN NoConsent("display_to_client")
        ELSE IF tool.present /\ tool.hasOverrides
                /\ tool.never_require_consent
        THEN NoConsent("tool_override_never")
        ELSE IF tool.present /\ tool.hasOverrides
                /\ tool.always_require_consent
        THEN [consent_required |-> TRUE, reason |-> <<"tool_override_always">>,
              trusted_server |-> FALSE,
              custom_message |-> tool.custom_consent_message,
              consent_cache_key |-> << >>, threw |-> FALSE]
        ELSE IF tool.present /\ tool.hasOverrides
                /\ Truthy(destination)
                /\ Includes(tool.allowed_without_consent, destination)
        THEN NoConsent("tool_allowed_list")
        ELSE IF Truthy(destination)
        THEN TargetConsent(tool, usageContext, serverConfig)
        ELSE NoConsent("no_consent_required")

NoConsentRequest ==
    [present |-> FALSE, request_id |-> 0, tool_name |-> NameUnknown,
     destination_server |-> NoDestination, data_usage |-> "display",
     trust_level |-> "low", timeout_seconds |-> 0,
     allow_remember |-> FALSE, custom_message |-> "absent"]

\* The request id is `consent_${Date.now()}_${random}`: requestId stands
\* for that freshly generated string.
createConsentRequest(tool, usageContext, serverConfig, requestId) ==
    LET destination == usageContext.target.destination
        targetInfo == CategoryOf(serverConfig, destination)
    IN  [present |-> TRUE,
         request_id |-> requestId,
         tool_name |-> IF tool.present THEN tool.name ELSE NameUnknown,
         destination_server |-> destination,
         data_usage |-> usageContext.data_usage,
         trust_level |->
             IF targetInfo.present THEN targetInfo.trust_level ELSE "low",
         timeout_seconds |-> serverConfig.consent_timeout_seconds,
         allow_remember |-> serverConfig.allow_remember_choice,
         custom_message |->
             IF tool.present /\ tool.hasOverrides
             THEN tool.custom_consent_message ELSE "absent"]

CheckResult(required, reason) ==
    [consent_required |-> required, reason |-> <<reason>>,
     trusted_server |-> FALSE, custom_message |-> "absent",
     consent_cache_key |-> << >>, threw |-> FALSE]

Validation(allowed, code, message, request, usageValid, targetValid, check) ==
    [threw |-> FALSE, allowed |-> allowed, error_code |-> code,
     error_message |-> message, consent_request |-> request,
     validation_details |->
         [data_usage_valid |-> usageValid,
          target_permissions_valid |-> targetValid,
          consent_check |-> check]]

\* Complete validation: data usage, then target, then consent, then prompt.
validateDataAccess(tool, usageContext, serverConfig, requestId) ==
    LET effectivePermission ==
            getEffectiveDataUsagePermission(tool, usageContext.data_usage,
                                            serverConfig)
        targetValidation ==
            validateTargetPermissions(tool, usageContext, serverConfig)
        consentCheck == checkConsentRequired(tool, usageContext, serverConfig)
        consentRequest ==
            createConsentRequest(tool, usageContext, serverConfig, requestId)
    IN  IF effectivePermission = "deny"
        THEN Validation(FALSE, "INSUFFICIENT_PERMISSIONS",
                        <<"Data usage not permitted", usageContext.data_usage>>,
                        NoConsentRequest, FALSE, FALSE,
                        CheckResult(FALSE, "denied"))
        ELSE IF ~targetValidation.allowed
        THEN Validation(FALSE, "INSUFFICIENT_PERMISSIONS",
                        <<"Target access denied">> \o targetValidation.reason,
                        NoConsentRequest, TRUE, FALSE,
                        CheckResult(FALSE, "target_denied"))
        ELSE IF consentCheck.threw
        THEN [Validation(FALSE, "none", <<"TypeError">>, NoConsentRequest,
                         TRUE, TRUE, consentCheck) EXCEPT !.threw = TRUE]
        ELSE IF consentCheck.consent_required
        THEN Validation(FALSE, "CONSENT_REQUIRED",
                        <<"User consent required for data transfer">>,
                        consentRequest, TRUE, TRUE, consentCheck)
        ELSE IF effectivePermission = "prompt"
        THEN Validation(FALSE, "CONSENT_REQUIRED",
                        <<"User confirmation required for this operation">>,
                        consentRequest, TRUE, TRUE,
                        [consentCheck EXCEPT !.consent_required = TRUE,
                                             !.reason = <<"prompt_required">>])
        ELSE Validation(TRUE, "none", << >>, NoConsentRequest, TRUE, TRUE,
                        consentCheck)

\* ------------------------------------------------- data cache and values

\* A cell value keeps its JavaScript type next to its text rendering.
Num(text) == [t |-> "number", text |-> text]
Str(text) == [t |-> "string", text |-> text]
Undefined == [t |-> "undefined", text |-> <<"u", "n", "d", "e", "f", "i", "n", "e", "d">>]
Null == [t |-> "null", text |-> <<"n", "u", "l", "l">>]

\* String(value)
String(value) == value.text

\* dataCache.get(id) of an id that was never set
NoEntry == [type |-> "absent", headers |-> << >>, rows |-> << >>,
            payload |-> << >>]

Table(headers, rows) ==
    [type |-> "table", headers |-> headers, rows |-> rows, payload |-> << >>]

\* [a-zA-Z0-9_\-] and [0-9]
DigitChars == {"0", "1", "2", "3", "4", "5", "6", "7", "8", "9"}
IdChars == DigitChars \cup {"_", "-"} \cup
    {"a", "b", "c", "d", "e", "f", "g", "h", "i", "j", "k", "l", "m",
     "n", "o", "p", "q", "r", "s", "t", "u", "v", "w", "x", "y", "z",
     "A", "B", "C", "D", "E", "F", "G", "H", "I", "J", "K", "L", "M",
     "N", "O", "P", "Q", "R", "S", "T", "U", "V", "W", "X", "Y", "Z"}

\* Index after the longest run of characters of class cls starting at i.
RECURSIVE RunEnd(_, _, _)
RunEnd(s, i, cls) ==
    IF i <= Len(s) /\ s[i] \in cls THEN RunEnd(s, i + 1, cls) ELSE i

CharAt(s, i, c) == i <= Len(s) /\ s[i] = c

\* PLACEHOLDER_REGEX anchored at index i: the index after the closing
\* brace, or 0 when there is no match at i.
MatchAt(s, i) ==
    IF ~CharAt(s, i, "{") THEN 0
    ELSE LET a == RunEnd(s, i + 1, IdChars)
         IN  IF a = i + 1 \/ ~CharAt(s, a, ".") THEN 0
             ELSE LET b == RunEnd(s, a + 1, DigitChars)
                  IN  IF b = a + 1 \/ ~CharAt(s, b, ".") THEN 0
                      ELSE LET c == RunEnd(s, b + 1, IdChars)
                           IN  IF c = b + 1 \/ ~CharAt(s, c, "}") THEN 0
                               ELSE c + 1

\* SINGLE_PLACEHOLDER_REGEX: the whole string is one placeholder.
SINGLE_PLACEHOLDER_REGEX(s) == MatchAt(s, 1) = Len(s) + 1

\* The matches of the global PLACEHOLDER_REGEX from index i on, leftmost
\* first, as <<start, end>> pairs (end exclusive).
RECURSIVE PLACEHOLDER_REGEX(_, _)
PLACEHOLDER_REGEX(s, i) ==
    IF i > Len(s) THEN << >>
    ELSE IF MatchAt(s, i) # 0
    THEN << <<i, MatchAt(s, i)>> >> \o PLACEHOLDER_REGEX(s, MatchAt(s, i))
    ELSE PLACEHOLDER_REGEX(s, i + 1)

\* placeholder.split('.')
RECURSIVE Split(_, _)
Split(s, sep) ==
    IF \A i \in DOMAIN s : s[i] # sep THEN <<s>>
    ELSE LET i == CHOOSE j \in DOMAIN s :
                      s[j] = sep /\ \A k \in 1..(j - 1) : s[k] # sep
         IN  <<SubSeq(s, 1, i - 1)>> \o Split(SubSeq(s, i + 1, Len(s)), sep)

DigitValue(c) ==
    CASE c = "0" -> 0 [] c = "1" -> 1 [] c = "2" -> 2 [] c = "3" -> 3
      [] c = "4" -> 4 [] c = "5" -> 5 [] c = "6" -> 6 [] c = "7" -> 7
      [] c = "8" -> 8 [] c = "9" -> 9

\* parseInt(s, 10) of the leading digits of s; -1 stands for NaN.
RECURSIVE ParseDigits(_, _)
ParseDigits(s, acc) ==
    IF s = << >> \/ Head(s) \notin DigitChars THEN acc
    ELSE ParseDigits(Tail(s), 10 * acc + DigitValue(Head(s)))

parseInt(s) ==
    IF s = << >> \/ Head(s) \notin DigitChars THEN -1 ELSE ParseDigits(s, 0)

\* headers.indexOf(columnName), one-based; 0 stands for -1.
IndexOf(headers, columnName) ==
    IF \E i \in DOMAIN headers : headers[i] = columnName
    THEN CHOOSE i \in DOMAIN headers :
             headers[i] = columnName
             /\ \A j \in 1..(i - 1) : headers[j] # columnName
    ELSE 0

Failure == [success |-> FALSE, value |-> Null]

\* A variant that does not test the kind of the cached entry.
resolveSinglePlaceholderAnyKind(placeholder, cache) ==
    LET parts == Split(placeholder, ".")
    IN  IF Len(parts) # 3 THEN Failure
        ELSE LET toolCallId == parts[1]
                 rowIndex == parseInt(parts[2])
                 columnName == parts[3]
             IN  IF rowIndex = -1 THEN Failure
                 ELSE IF toolCallId \notin DOMAIN cache
                 THEN Failure
                 ELSE LET headers == cache[toolCallId].headers
                          rows == cache[toolCallId].rows
                          columnIndex == IndexOf(headers, columnName)
                      IN  IF columnIndex = 0 \/ rowIndex + 1 > Len(rows)
                          THEN Failure
                          ELSE [success |-> TRUE,
                                value |->
                                    IF columnIndex <= Len(rows[rowIndex + 1])
                                    THEN rows[rowIndex + 1][columnIndex]
                                    ELSE Undefined]

\* placeholder is the text between the braces; cache maps call ids to
\* entries.
resolveSinglePlaceholder(placeholder, cache) ==
    LET parts == Split(placeholder, ".")
    IN  IF Len(parts) # 3 THEN Failure
        ELSE LET toolCallId == parts[1]
                 rowIndex == parseInt(parts[2])
                 columnName == parts[3]
             IN  IF rowIndex = -1 THEN Failure
                 ELSE IF toolCallId \notin DOMAIN cache
                         \/ cache[toolCallId].type # "table"
                 THEN Failure
                 ELSE LET headers == cache[toolCallId].headers
                          rows == cache[toolCallId].rows
                          columnIndex == IndexOf(headers, columnName)
                      IN  IF columnIndex = 0 \/ rowIndex + 1 > Len(rows)
                          THEN Failure
                          ELSE [success |-> TRUE,
                                value |->
                                    IF columnIndex <= Len(rows[rowIndex + 1])
                                    THEN rows[rowIndex + 1][columnIndex]
                                    ELSE Undefined]

\* ------------------------------------------------- placeholder resolution

\* Index of the first occurrence of pattern in s at or after i; 0 if none.
RECURSIVE FindFrom(_, _, _)
FindFrom(s, pattern, i) ==
    IF i + Len(pattern) - 1 > Len(s) THEN 0
    ELSE IF SubSeq(s, i, i + Len(pattern) - 1) = pattern THEN i
    ELSE FindFrom(s, pattern, i + 1)

\* GetSubstitution: the replacement text with its $-patterns expanded.
\* A string pattern has no captures, so $1..$9 stay as they are.
RECURSIVE Expand(_, _, _, _)
Expand(replacement, matched, before, after) ==
    IF replacement = << >> THEN << >>
    ELSE IF Head(replacement) = "$" /\ Len(replacement) >= 2
    THEN LET c == replacement[2]
             rest == SubSeq(replacement, 3, Len(replacement))
         IN  IF c = "$" THEN <<"$">> \o Expand(rest, matched, before, after)
             ELSE IF c = "&" THEN matched \o Expand(rest, matched, before, after)
             ELSE IF c = "`" THEN before \o Expand(rest, matched, before, after)
             ELSE IF c = "'" THEN after \o Expand(rest, matched, before, after)
             ELSE <<"$">> \o Expand(Tail(replacement), matched, before, after)
    ELSE <<Head(replacement)>> \o Expand(Tail(replacement), matched, before, after)

\* String.prototype.replace(pattern, replacement) with a string pattern:
\* the first occurrence only.
Replace(s, pattern, replacement) ==
    LET i == FindFrom(s, pattern, 1)
    IN  IF i = 0 THEN s
        ELSE LET before == SubSeq(s, 1, i - 1)
                 after == SubSeq(s, i + Len(pattern), Len(s))
             IN  before \o Expand(replacement, pattern, before, after) \o after

\* Trees of params.data.
StringData(s) == [k |-> "string", s |-> s, items |-> << >>]
ArrayData(items) == [k |-> "array", s |-> << >>, items |-> items]
\* An object with one-character keys: the keys in s, the value of s[i] in
\* items[i].
ObjectData(keys, items) == [k |-> "object", s |-> keys, items |-> items]
NullData == [k |-> "null", s |-> << >>, items |-> << >>]

\* !data
Falsy(data) ==
    \/ data.k = "null"
    \/ data.k = "string" /\ data.s = << >>
    \/ data.k = "number" /\ data.s = <<"0">>

\* A resolved sole placeholder keeps the type of the cell.
ValueData(value) ==
    IF value.t = "string" THEN StringData(value.text)
    ELSE [k |-> value.t, s |-> value.text, items |-> << >>]

NoTracking ==
    [total_placeholders |-> 0, resolved_placeholders |-> 0,
     failed_placeholders |-> << >>, reads |-> 0]

\* The while loop over regex.exec(data): matches are found in the original
\* string, replacements are made in resolvedString.
RECURSIVE EmbeddedLoop(_, _, _, _, _)
EmbeddedLoop(data, matches, resolvedString, tracking, cache) ==
    IF matches = << >>
    THEN [value |-> StringData(resolvedString), tracking |-> tracking]
    ELSE LET match == Head(matches)
             fullPlaceholder == SubSeq(data, match[1], match[2] - 1)
             placeholder == SubSeq(data, match[1] + 1, match[2] - 2)
             resolution == resolveSinglePlaceholder(placeholder, cache)
             counted == [tracking EXCEPT !.total_placeholders = @ + 1,
                                         !.reads = @ + 1]
         IN  IF resolution.success
             THEN EmbeddedLoop(data, Tail(matches),
                      Replace(resolvedString, fullPlaceholder,
                              String(resolution.value)),
                      [counted EXCEPT !.resolved_placeholders = @ + 1],
                      cache)
             ELSE EmbeddedLoop(data, Tail(matches), resolvedString,
                      [counted EXCEPT !.failed_placeholders =
                                          Append(@, fullPlaceholder)],
                      cache)

\* The string case of resolveWithTracking.
ResolveString(data, tracking, cache) ==
    IF SINGLE_PLACEHOLDER_REGEX(data)
    THEN LET placeholder == SubSeq(data, 2, Len(data) - 1)
             resolution == resolveSinglePlaceholder(placeholder, cache)
             counted == [tracking EXCEPT !.total_placeholders = @ + 1,
                                         !.reads = @ + 1]
         IN  IF resolution.success
             THEN [value |-> ValueData(resolution.value),
                   tracking |-> [counted EXCEPT
                                     !.resolved_placeholders = @ + 1]]
             ELSE [value |-> StringData(data),
                   tracking |-> [counted EXCEPT !.failed_placeholders =
                                                    Append(@, data)]]
    ELSE EmbeddedLoop(data, PLACEHOLDER_REGEX(data, 1), data, tracking, cache)

\* resolveArgumentPlaceholders on a string that is not a sole placeholder:
\* obj.replace(PLACEHOLDER_REGEX, callback) from index i on.  Each match
\* is replaced where it stands by the callback's return value.
RECURSIVE resolveArgumentPlaceholders(_, _, _)
resolveArgumentPlaceholders(obj, i, cache) ==
    IF i > Len(obj) THEN << >>
    ELSE IF MatchAt(obj, i) = 0
    THEN <<obj[i]>> \o resolveArgumentPlaceholders(obj, i + 1, cache)
    ELSE LET match == SubSeq(obj, i, MatchAt(obj, i) - 1)
             placeholder == SubSeq(obj, i + 1, MatchAt(obj, i) - 2)
             result == resolveSinglePlaceholder(placeholder, cache)
         IN  (IF result.success THEN String(result.value) ELSE match)
                 \o resolveArgumentPlaceholders(obj, MatchAt(obj, i), cache)

\* countPlaceholders of the exported resolveWithTracking, as the list of
\* the matches of PLACEHOLDER_REGEX in the strings of the tree, in walk
\* order; the code adds up their number.
RECURSIVE countPlaceholders(_)
countPlaceholders(obj) ==
    IF obj.k = "string"
    THEN LET matches == PLACEHOLDER_REGEX(obj.s, 1)
         IN  [i \in DOMAIN matches |->
                 SubSeq(obj.s, matches[i][1], matches[i][2] - 1)]
    ELSE IF obj.k \in {"array", "object"} /\ obj.items # << >>
    THEN countPlaceholders(Head(obj.items))
             \o countPlaceholders([obj EXCEPT !.items = Tail(@)])
    ELSE << >>

\* The inner resolveWithTracking of handleResolvePlaceholders; the
\* tracking record is threaded through the walk.  reads counts the
\* data-cache lookups made on the way.
RECURSIVE resolveWithTracking(_, _, _)
RECURSIVE ResolveItems(_, _, _)
resolveWithTracking(data, tracking, cache) ==
    IF Falsy(data) THEN [value |-> data, tracking |-> tracking]
    ELSE IF data.k = "string" THEN ResolveString(data.s, tracking, cache)
    ELSE IF data.k = "array"
    THEN LET r == ResolveItems(data.items, tracking, cache)
         IN  [value |-> ArrayData(r.values), tracking |-> r.tracking]
    ELSE IF data.k = "object"
    THEN LET r == ResolveItems(data.items, tracking, cache)
         IN  [value |-> ObjectData(data.s, r.values), tracking |-> r.tracking]
    ELSE [value |-> data, tracking |-> tracking]

ResolveItems(items, tracking, cache) ==
    IF items = << >> THEN [values |-> << >>, tracking |-> tracking]
    ELSE LET first == resolveWithTracking(Head(items), tracking, cache)
             rest == ResolveItems(Tail(items), first.tracking, cache)
         IN  [values |-> <<first.value>> \o rest.values,
              tracking |-> rest.tracking]

\* ---------------------------------------------------------- consent cache

Decisions == {"allow", "deny"}

\* parts.join('::')
RECURSIVE JoinParts(_)
JoinParts(parts) ==
    IF parts = << >> THEN << >>
    ELSE IF Len(parts) = 1 THEN parts[1]
    ELSE parts[1] \o <<":", ":">> \o JoinParts(Tail(parts))

\* The usage level as the string it is.
UsageText(usage) ==
    CASE usage = "display" -> <<"d", "i", "s", "p", "l", "a", "y">>
      [] usage = "process" -> <<"p", "r", "o", "c", "e", "s", "s">>
      [] usage = "store" -> <<"s", "t", "o", "r", "e">>
      [] usage = "transfer" -> <<"t", "r", "a", "n", "s", "f", "e", "r">>

\* toolName is << >> when the caller gives none (or an empty one).
generateCacheKey(requesterHostId, destination, dataUsage, toolName) ==
    JoinParts(<<requesterHostId, destination, UsageText(dataUsage)>>
              \o (IF toolName # << >> THEN <<toolName>> ELSE << >>))

\* entry.timestamp + (entry.duration_minutes * 60 * 1000)
ExpiryTime(entry) ==
    entry.timestamp + entry.duration_minutes * SecondsPerMinute * MsPerSecond

Without(f, key) == [k \in DOMAIN f \ {key} |-> f[k]]

cleanupExpiredEntries(cache, t) ==
    [k \in { key \in DOMAIN cache : ~(t > ExpiryTime(cache[key])) } |-> cache[k]]

setConsent(cache, cacheKey, decision, durationMinutes, t) ==
    cleanupExpiredEntries(
        (cacheKey :> [decision |-> decision, timestamp |-> t,
                      duration_minutes |-> durationMinutes]) @@ cache, t)

\* A variant that does not look at the expiry time.
getConsentStale(cache, cacheKey, t) ==
    IF cacheKey \notin DOMAIN cache
    THEN [decision |-> "null", cache |-> cache]
    ELSE [decision |-> cache[cacheKey].decision, cache |-> cache]

\* The decision returned ("null" for null) and the cache afterwards.
getConsent(cache, cacheKey, t) ==
    IF cacheKey \notin DOMAIN cache
    THEN [decision |-> "null", cache |-> cache]
    ELSE IF t > ExpiryTime(cache[cacheKey])
    THEN [decision |-> "null", cache |-> Without(cache, cacheKey)]
    ELSE [decision |-> cache[cacheKey].decision, cache |-> cache]

\* A promise settles once: resolve and reject of a settled promise do
\* nothing.
Settle(promiseList, p, outcome) ==
    IF promiseList[p].state = "pending"
    THEN [promiseList EXCEPT ![p].state = outcome]
    ELSE promiseList

\* The pending table maps a request id to the promise (resolve, reject)
\* and timer stored for it; a timer is identified with its promise.
storePendingRequest(pending, promiseList, timerSet, requestId, timeoutSeconds, t) ==
    LET p == Len(promiseList) + 1
    IN  [pending |-> (requestId :> p) @@ pending,
         promises |-> Append(promiseList,
                             [requestId |-> requestId, state |-> "pending"]),
         timers |-> timerSet \cup
                    {[promise |-> p, requestId |-> requestId,
                      due |-> t + timeoutSeconds * MsPerSecond]}]

\* A variant that leaves the request in the pending table.
resolveConsentRequestKeeps(pending, promiseList, timerSet, requestId, decision) ==
    IF requestId \notin DOMAIN pending
    THEN [ok |-> FALSE, pending |-> pending, promises |-> promiseList,
          timers |-> timerSet]
    ELSE LET p == pending[requestId]
         IN  [ok |-> TRUE,
              timers |-> { t \in timerSet : t.promise # p },
              pending |-> pending,
              promises |-> Settle(promiseList, p, decision)]

resolveConsentRequest(pending, promiseList, timerSet, requestId, decision) ==
    IF requestId \notin DOMAIN pending
    THEN [ok |-> FALSE, pending |-> pending, promises |-> promiseList,
          timers |-> timerSet]
    ELSE LET p == pending[requestId]
         IN  [ok |-> TRUE,
              \* clearTimeout(pending.timeout)
              timers |-> { t \in timerSet : t.promise # p },
              pending |-> Without(pending, requestId),
              promises |-> Settle(promiseList, p, decision)]

\* A variant of the callback that leaves the request in the pending table.
TimeoutCallbackKeeps(pending, promiseList, timerSet, timer) ==
    [pending |-> pending,
     promises |-> Settle(promiseList, timer.promise, "timeout"),
     timers |-> timerSet \ {timer}]

\* The setTimeout callback of storePendingRequest.
TimeoutCallback(pending, promiseList, timerSet, timer) ==
    [pending |-> Without(pending, timer.requestId),
     promises |-> Settle(promiseList, timer.promise, "timeout"),
     timers |-> timerSet \ {timer}]

\* -------------------------------------------- configuration and tools

\* defaultMcppConfig of mcpp-server-config.ts
defaultMcppConfig ==
    [present |-> TRUE,
     default_data_usage_policy |->
         [display |-> "allow", process |-> "allow", store |-> "prompt",
          transfer |-> "prompt"],
     default_target_policy |->
         [client |-> "allow", server |-> AllList, servers |-> AllList,
          llm |-> "prompt", all |-> "prompt"],
     require_consent_for |->
         [sensitive_data_transfer |-> TRUE, external_server_transfer |-> TRUE,
          cross_domain_transfer |-> FALSE, llm_data_access |-> TRUE,
          any_transfer |-> FALSE],
     consent_timeout_seconds |-> 30,
     default_on_timeout |-> "deny",
     cache_consent_duration_minutes |-> 60,
     trusted_targets |->
         {Dest.localhost, Dest.internal_analytics, Dest.backup_service,
          Dest.internal_llm, Dest.claude3, Dest.gpt35},
     trusted_domains |-> {Dest.company_domain, Dest.internal_domain},
     show_data_preview |-> TRUE,
     show_destination_info |-> TRUE,
     allow_remember_choice |-> TRUE,
     target_categories |->
         (Dest.analytics_server :>
              Category("server", "internal", "high", FALSE, "absent"))
         @@ (Dest.backup_service :>
              Category("server", "internal", "high", FALSE, "absent"))
         @@ (Dest.partner_crm :>
              Category("server", "partner", "medium", TRUE, "absent"))
         @@ (Dest.external_api :>
              Category("server", "external", "low", TRUE, "absent"))
         @@ (Dest.public_service :>
              Category("server", "public", "low", TRUE, "absent"))
         @@ (Dest.gpt4 :>
              Category("llm", "external", "medium", TRUE, "temporary"))
         @@ (Dest.gpt35 :>
              Category("llm", "external", "medium", FALSE, "temporary"))
         @@ (Dest.claude3 :>
              Category("llm", "external", "high", FALSE, "none"))
         @@ (Dest.internal_llm :>
              Category("llm", "internal", "high", FALSE, "none"))
         @@ (Dest.llama2 :>
              Category("llm", "internal", "high", FALSE, "none"))]

\* The names of the registered tools used here.
Name ==
    [Invoices |->
         <<"g", "e", "t", "_", "b", "o", "o", "k", "s", "_", "i", "n", "v",
           "o", "i", "c", "e", "s">>,
     AddInvoice |->
         <<"a", "d", "d", "_", "b", "o", "o", "k", "s", "_", "i", "n", "v",
           "o", "i", "c", "e">>,
     Items |->
         <<"g", "e", "t", "_", "b", "o", "o", "k", "s", "_", "i", "t", "e",
           "m", "s">>]
HostA == <<"h", "o", "s", "t", "-", "a">>
\* Call ids and column names of the scenarios.
Call == [T1 |-> <<"t", "1">>, T2 |-> <<"t", "2">>,
         Dotted |-> <<"t", ".", "3">>]
Col == [ID |-> <<"I", "D">>, Name |-> <<"N", "a", "m", "e">>,
        Age |-> <<"A", "g", "e">>]

AllAllowed == [u \in DataUsages |-> "allow"]

\* ZOHO_TOOLS: get_books_invoices
ToolInvoices ==
    [NoTool EXCEPT
        !.present = TRUE, !.name = Name.Invoices, !.isSensitive = TRUE,
        !.usage = [display |-> "allow", process |-> "allow",
                   store |-> "prompt", transfer |-> "prompt"],
        !.hasTargetPermissions = TRUE,
        !.allowed_targets = ListOf({Dest.internal_llm, Dest.claude3}),
        !.blocked_targets = {Dest.gpt4},
        !.hasOverrides = TRUE,
        !.custom_consent_message = "custom"]

\* ZOHO_TOOLS: add_books_invoice
ToolAddInvoice ==
    [NoTool EXCEPT
        !.present = TRUE, !.name = Name.AddInvoice,
        !.usage = [display |-> "allow", process |-> "allow",
                   store |-> "allow", transfer |-> "prompt"]]

\* ZOHO_TOOLS: get_books_items
ToolItems ==
    [NoTool EXCEPT
        !.present = TRUE, !.name = Name.Items, !.usage = AllAllowed]

ZOHO_TOOLS == {ToolInvoices, ToolAddInvoice, ToolItems}

\* ZOHO_TOOLS.find(t => t.name === name)
FindTool(name) ==
    IF \E t \in ZOHO_TOOLS : t.name = name
    THEN CHOOSE t \in ZOHO_TOOLS : t.name = name
    ELSE NoTool

\* ------------------------------------------------------ endpoint handlers

\* usage_context === undefined
NoUsageContext ==
    [present |-> FALSE, data_usage |-> "display", host_id |-> << >>,
     tool_name |-> << >>,
     target |-> [type |-> "client", destination |-> NoDestination]]

UsageContext(dataUsage, hostId, toolName, type, destination) ==
    [present |-> TRUE, data_usage |-> dataUsage, host_id |-> hostId,
     tool_name |-> toolName,
     target |-> [type |-> type, destination |-> destination]]

\* The validation record of a request that was not evaluated.
NotEvaluated ==
    Validation(FALSE, "none", << >>, NoConsentRequest, FALSE, FALSE,
               CheckResult(FALSE, "not_evaluated"))

NoStatus ==
    [total_placeholders |-> 0, resolved_placeholders |-> 0,
     failed_placeholders |-> << >>, success_rate |-> 0]

\* A JSON-RPC response.  kind is "result", "error" or "throw" (the handler
\* did not return).  events lists, in order, the policy evaluations
\* ("eval") and data-cache lookups ("read") the handler made.
Response(kind, code, entry, data, status, evaluated, validation, events) ==
    [kind |-> kind, code |-> code, entry |-> entry, resolved_data |-> data,
     resolution_status |-> status, evaluated |-> evaluated,
     consent_request |-> validation.consent_request,
     validation_details |-> validation.validation_details,
     validation |-> validation, events |-> events]

\* The error response built from a validation that did not allow.
ValidationError(validation, events) ==
    IF validation.threw
    THEN Response("throw", "TypeError", NoEntry, NullData, NoStatus, TRUE,
                  validation, events)
    ELSE Response("error", validation.error_code, NoEntry, NullData,
                  NoStatus, TRUE, validation, events)

\* A variant that evaluates the policy before it looks the entry up.
handleGetDataPolicyFirst(params, tool, serverConfig, cache, requestId) ==
    LET tool_call_id == params.tool_call_id
        usage_context == params.usage_context
        validation ==
            validateDataAccess(tool, usage_context, serverConfig, requestId)
    IN  IF tool_call_id = << >>
        THEN Response("error", "INVALID_PARAMS", NoEntry, NullData, NoStatus,
                      FALSE, NotEvaluated, << >>)
        ELSE IF usage_context.present /\ serverConfig.present
                /\ ~validation.allowed
        THEN ValidationError(validation, <<"eval">>)
        ELSE IF tool_call_id \notin DOMAIN cache
        THEN Response("error", "DATA_NOT_FOUND", NoEntry, NullData, NoStatus,
                      FALSE, NotEvaluated, <<"read">>)
        ELSE IF usage_context.present /\ serverConfig.present
        THEN Response("result", "none", cache[tool_call_id], NullData,
                      NoStatus, TRUE, validation, <<"eval", "read">>)
        ELSE Response("result", "none", cache[tool_call_id], NullData,
                      NoStatus, FALSE, NotEvaluated, <<"read">>)

\* cache is the data cache; requestId the id a consent request made for
\* this call would get.
handleGetData(params, tool, serverConfig, cache, requestId) ==
    LET tool_call_id == params.tool_call_id
        usage_context == params.usage_context
        validation ==
            validateDataAccess(tool, usage_context, serverConfig, requestId)
    IN  IF tool_call_id = << >>
        THEN Response("error", "INVALID_PARAMS", NoEntry, NullData, NoStatus,
                      FALSE, NotEvaluated, << >>)
        ELSE IF tool_call_id \notin DOMAIN cache
        THEN Response("error", "DATA_NOT_FOUND", NoEntry, NullData, NoStatus,
                      FALSE, NotEvaluated, <<"read">>)
        ELSE IF usage_context.present /\ serverConfig.present
        THEN (IF ~validation.allowed
              THEN ValidationError(validation, <<"read", "eval">>)
              ELSE Response("result", "none", cache[tool_call_id], NullData,
                            NoStatus, TRUE, validation, <<"read", "eval">>))
        ELSE Response("result", "none", cache[tool_call_id], NullData,
                      NoStatus, FALSE, NotEvaluated, <<"read">>)

\* Math.round((resolved / total) * 100), or 100 when there is none.
SuccessRate(tracking) ==
    IF tracking.total_placeholders > 0
    THEN (200 * tracking.resolved_placeholders + tracking.total_placeholders)
             \div (2 * tracking.total_placeholders)
    ELSE 100

Reads(n) == [i \in 1..n |-> "read"]

\* A variant that refuses a denied request only: a request whose evaluation
\* asks for consent is resolved.
handleResolvePlaceholdersOnPrompt(params, tool, serverConfig, cache, requestId) ==
    LET usage_context == params.usage_context
        validation ==
            validateDataAccess(tool, usage_context, serverConfig, requestId)
        checked == usage_context.present /\ serverConfig.present
        resolved == resolveWithTracking(params.data, NoTracking, cache)
        tracking == resolved.tracking
    IN  IF Falsy(params.data)
        THEN Response("error", "INVALID_PARAMS", NoEntry, NullData, NoStatus,
                      FALSE, NotEvaluated, << >>)
        ELSE IF checked /\ ~validation.allowed
                /\ validation.error_code # "CONSENT_REQUIRED"
        THEN ValidationError(validation, <<"eval">>)
        ELSE Response("result", "none", NoEntry, resolved.value,
                      [total_placeholders |-> tracking.total_placeholders,
                       resolved_placeholders |->
                           tracking.resolved_placeholders,
                       failed_placeholders |-> tracking.failed_placeholders,
                       success_rate |-> SuccessRate(tracking)],
                      checked,
                      IF checked THEN validation ELSE NotEvaluated,
                      (IF checked THEN <<"eval">> ELSE << >>)
                          \o Reads(tracking.reads))

handleResolvePlaceholders(params, tool, serverConfig, cache, requestId) ==
    LET usage_context == params.usage_context
        validation ==
            validateDataAccess(tool, usage_context, serverConfig, requestId)
        checked == usage_context.present /\ serverConfig.present
        resolved == resolveWithTracking(params.data, NoTracking, cache)
        tracking == resolved.tracking
    IN  IF Falsy(params.data)
        THEN Response("error", "INVALID_PARAMS", NoEntry, NullData, NoStatus,
                      FALSE, NotEvaluated, << >>)
        ELSE IF checked /\ ~validation.allowed
        THEN ValidationError(validation, <<"eval">>)
        ELSE Response("result", "none", NoEntry, resolved.value,
                      [total_placeholders |-> tracking.total_placeholders,
                       resolved_placeholders |->
                           tracking.resolved_placeholders,
                       failed_placeholders |-> tracking.failed_placeholders,
                       success_rate |-> SuccessRate(tracking)],
                      checked,
                      IF checked THEN validation ELSE NotEvaluated,
                      (IF checked THEN <<"eval">> ELSE << >>)
                          \o Reads(tracking.reads))

\* String.prototype.toLowerCase on the ASCII letters.
toLowerCase(s) ==
    LET upper == <<"A", "B", "C", "D", "E", "F", "G", "H", "I", "J", "K",
                   "L", "M", "N", "O", "P", "Q", "R", "S", "T", "U", "V",
                   "W", "X", "Y", "Z">>
        lower == <<"a", "b", "c", "d", "e", "f", "g", "h", "i", "j", "k",
                   "l", "m", "n", "o", "p", "q", "r", "s", "t", "u", "v",
                   "w", "x", "y", "z">>
    IN  [i \in DOMAIN s |->
            IF \E k \in DOMAIN upper : upper[k] = s[i]
            THEN lower[CHOOSE k \in DOMAIN upper : upper[k] = s[i]]
            ELSE s[i]]

\* The two scan loops of handleFindReference over cells, a list of
\* <<row, column>> pairs (one-based): bestMatch after the loop.
\* jaroWinkler[text] is the similarity, in thousandths, that the
\* jaro-winkler package gives for the lower-cased keyword and text.
RECURSIVE ScanCells(_, _, _, _, _)
ScanCells(cells, bestMatch, refToolCallId, entry, jaroWinkler) ==
    IF cells = << >> THEN bestMatch
    ELSE LET i == Head(cells)[1]
             j == Head(cells)[2]
             cellValue ==
                 String(IF j <= Len(entry.rows[i]) THEN entry.rows[i][j]
                        ELSE Undefined)
             similarity == jaroWinkler[toLowerCase(cellValue)]
             digits == <<"0", "1", "2", "3", "4", "5", "6", "7", "8", "9">>
         IN  ScanCells(Tail(cells),
                 IF similarity > bestMatch.similarity
                 THEN [placeholder |->
                           <<"{">> \o refToolCallId \o <<".", digits[i], ".">>
                               \o entry.headers[j] \o <<"}">>,
                       similarity |-> similarity, rowIndex |-> i - 1,
                       columnName |-> entry.headers[j]]
                 ELSE bestMatch,
                 refToolCallId, entry, jaroWinkler)

\* A variant that accepts a best match at the threshold itself.
handleFindReferenceAtThreshold(params, cache, jaroWinkler) ==
    LET refToolCallId == params.tool_call_id
        columnName == params.column_name
        entry == cache[refToolCallId]
        colIndex == IndexOf(entry.headers, columnName)
        Error(code) ==
            [kind |-> "error", code |-> code, placeholder |-> << >>,
             similarity |-> -1, row_index |-> -1, column_name |-> << >>]
        cells ==
            IF columnName # << >>
            THEN [i \in DOMAIN entry.rows |-> <<i, colIndex>>]
            ELSE [n \in 1..(Len(entry.rows) * Len(entry.headers)) |->
                     <<((n - 1) \div Len(entry.headers)) + 1,
                       ((n - 1) % Len(entry.headers)) + 1>>]
        bestMatch ==
            ScanCells(cells,
                      [placeholder |-> << >>, similarity |-> -1,
                       rowIndex |-> -1, columnName |-> << >>],
                      refToolCallId, entry, jaroWinkler)
    IN  IF refToolCallId = << >> \/ params.keyword = << >>
        THEN Error("INVALID_PARAMS")
        ELSE IF refToolCallId \notin DOMAIN cache \/ entry.type # "table"
        THEN Error("DATA_NOT_FOUND")
        ELSE IF columnName # << >> /\ colIndex = 0
        THEN Error("INVALID_PARAMS")
        ELSE IF bestMatch.similarity >= SIMILARITY_THRESHOLD
        THEN [kind |-> "result", code |-> "none",
              placeholder |-> bestMatch.placeholder,
              similarity |-> bestMatch.similarity,
              row_index |-> bestMatch.rowIndex,
              column_name |-> bestMatch.columnName]
        \* error.data.best_similarity
        ELSE [Error("REFERENCE_NOT_FOUND") EXCEPT
                  !.similarity = bestMatch.similarity]

\* A variant that scans a cached entry of any type.
handleFindReferenceAnyEntry(params, cache, jaroWinkler) ==
    LET refToolCallId == params.tool_call_id
        columnName == params.column_name
        entry == cache[refToolCallId]
        colIndex == IndexOf(entry.headers, columnName)
        Error(code) ==
            [kind |-> "error", code |-> code, placeholder |-> << >>,
             similarity |-> -1, row_index |-> -1, column_name |-> << >>]
        cells ==
            IF columnName # << >>
            THEN [i \in DOMAIN entry.rows |-> <<i, colIndex>>]
            ELSE [n \in 1..(Len(entry.rows) * Len(entry.headers)) |->
                     <<((n - 1) \div Len(entry.headers)) + 1,
                       ((n - 1) % Len(entry.headers)) + 1>>]
        bestMatch ==
            ScanCells(cells,
                      [placeholder |-> << >>, similarity |-> -1,
                       rowIndex |-> -1, columnName |-> << >>],
                      refToolCallId, entry, jaroWinkler)
    IN  IF refToolCallId = << >> \/ params.keyword = << >>
        THEN Error("INVALID_PARAMS")
        ELSE IF refToolCallId \notin DOMAIN cache
        THEN Error("DATA_NOT_FOUND")
        ELSE IF columnName # << >> /\ colIndex = 0
        THEN Error("INVALID_PARAMS")
        ELSE IF bestMatch.similarity > SIMILARITY_THRESHOLD
        THEN [kind |-> "result", code |-> "none",
              placeholder |-> bestMatch.placeholder,
              similarity |-> bestMatch.similarity,
              row_index |-> bestMatch.rowIndex,
              column_name |-> bestMatch.columnName]
        \* error.data.best_similarity
        ELSE [Error("REFERENCE_NOT_FOUND") EXCEPT
                  !.similarity = bestMatch.similarity]

\* params.column_name is << >> when the request has none.
handleFindReference(params, cache, jaroWinkler) ==
    LET refToolCallId == params.tool_call_id
        columnName == params.column_name
        entry == cache[refToolCallId]
        colIndex == IndexOf(entry.headers, columnName)
        Error(code) ==
            [kind |-> "error", code |-> code, placeholder |-> << >>,
             similarity |-> -1, row_index |-> -1, column_name |-> << >>]
        cells ==
            IF columnName # << >>
            THEN [i \in DOMAIN entry.rows |-> <<i, colIndex>>]
            ELSE [n \in 1..(Len(entry.rows) * Len(entry.headers)) |->
                     <<((n - 1) \div Len(entry.headers)) + 1,
                       ((n - 1) % Len(entry.headers)) + 1>>]
        bestMatch ==
            ScanCells(cells,
                      [placeholder |-> << >>, similarity |-> -1,
                       rowIndex |-> -1, columnName |-> << >>],
                      refToolCallId, entry, jaroWinkler)
    IN  IF refToolCallId = << >> \/ params.keyword = << >>
        THEN Error("INVALID_PARAMS")
        ELSE IF refToolCallId \notin DOMAIN cache \/ entry.type # "table"
        THEN Error("DATA_NOT_FOUND")
        ELSE IF columnName # << >> /\ colIndex = 0
        THEN Error("INVALID_PARAMS")
        ELSE IF bestMatch.similarity > SIMILARITY_THRESHOLD
        THEN [kind |-> "result", code |-> "none",
              placeholder |-> bestMatch.placeholder,
              similarity |-> bestMatch.similarity,
              row_index |-> bestMatch.rowIndex,
              column_name |-> bestMatch.columnName]
        \* error.data.best_similarity
        ELSE [Error("REFERENCE_NOT_FOUND") EXCEPT
                  !.similarity = bestMatch.similarity]

\* A variant that resolves the request before it validates the decision.
handleProvideConsentResolvesFirst(params, pending, promiseList, timerSet) ==
    LET resolved ==
            resolveConsentRequest(pending, promiseList, timerSet,
                                  params.request_id, params.decision)
        unchanged ==
            [pending |-> pending, promises |-> promiseList,
             timers |-> timerSet]
        changed ==
            [pending |-> resolved.pending, promises |-> resolved.promises,
             timers |-> resolved.timers]
        Error(code) ==
            [kind |-> "error", code |-> code,
             request_id |-> params.request_id, decision |-> params.decision,
             remembered |-> FALSE, pending_requests |-> DOMAIN pending]
    IN  IF params.request_id = 0 \/ params.decision = ""
        THEN [response |-> Error("INVALID_PARAMS"), state |-> unchanged]
        ELSE IF params.decision \notin Decisions
        THEN [response |-> Error("INVALID_PARAMS"), state |-> changed]
        ELSE IF ~resolved.ok
        THEN [response |-> Error("DATA_NOT_FOUND"), state |-> unchanged]
        ELSE [response |->
                  [kind |-> "result", code |-> "none",
                   request_id |-> params.request_id,
                   decision |-> params.decision,
                   remembered |-> params.remember,
                   pending_requests |-> {}],
              state |-> changed]

\* params of mcpp/provide_consent: request_id 0 and decision "" stand for
\* a missing parameter, duration_minutes 0 for a missing or zero one.
handleProvideConsent(params, pending, promiseList, timerSet) ==
    LET resolved ==
            resolveConsentRequest(pending, promiseList, timerSet,
                                  params.request_id, params.decision)
        unchanged ==
            [pending |-> pending, promises |-> promiseList,
             timers |-> timerSet]
        Error(code) ==
            [kind |-> "error", code |-> code,
             request_id |-> params.request_id, decision |-> params.decision,
             remembered |-> FALSE, pending_requests |-> DOMAIN pending]
    IN  IF params.request_id = 0 \/ params.decision = ""
        THEN [response |-> Error("INVALID_PARAMS"), state |-> unchanged]
        ELSE IF params.decision \notin Decisions
        THEN [response |-> Error("INVALID_PARAMS"), state |-> unchanged]
        ELSE IF ~resolved.ok
        THEN [response |-> Error("DATA_NOT_FOUND"), state |-> unchanged]
        ELSE [response |->
                  [kind |-> "result", code |-> "none",
                   request_id |-> params.request_id,
                   decision |-> params.decision,
                   remembered |-> params.remember,
                   pending_requests |-> {}],
              state |->
                  [pending |-> resolved.pending,
                   promises |-> resolved.promises,
                   timers |-> resolved.timers]]

\* The summary a sensitive tool returns instead of its data.
Summary(tool_call_id, standardizedData) ==
    [rowCount |-> Len(standardizedData.rows),
     columnNames |-> standardizedData.headers,
     dataRefId |-> tool_call_id]

\* A variant that caches the data of every tool.
processDataResponseCachesAll(tool, tool_call_id, standardizedData, cache) ==
    IF tool.present /\ tool.isSensitive
    THEN [cache |-> (tool_call_id :> standardizedData) @@ cache,
          content |-> [kind |-> "summary",
                       summary |-> Summary(tool_call_id, standardizedData),
                       data |-> NoEntry]]
    ELSE [cache |-> (tool_call_id :> standardizedData) @@ cache,
          content |-> [kind |-> "full",
                       summary |-> Summary(<< >>, NoEntry),
                       data |-> standardizedData]]

\* The data cache afterwards and the content returned.
processDataResponse(tool, tool_call_id, standardizedData, cache) ==
    IF tool.present /\ tool.isSensitive
    THEN [cache |-> (tool_call_id :> standardizedData) @@ cache,
          content |-> [kind |-> "summary",
                       summary |-> Summary(tool_call_id, standardizedData),
                       data |-> NoEntry]]
    ELSE [cache |-> cache,
          content |-> [kind |-> "full",
                       summary |-> Summary(<< >>, NoEntry),
                       data |-> standardizedData]]

\* ----------------------------------------------------------------- state

VARIABLES
    dataCache,        \* dataCache: call id -> cached entry
    consentEntries,   \* ConsentCache.cache: cache key -> entry
    pendingRequests,  \* ConsentCache.pendingRequests: request id -> promise
    promises,         \* the promises storePendingRequest returned
    timers,           \* the timeouts that are set and not cleared
    now,              \* Date.now()
    nextRequestId,    \* number of consent requests created so far
    recorded,         \* cache key -> the latest setConsent call on it
    last              \* the latest call and what it returned

vars == <<dataCache, consentEntries, pendingRequests, promises, timers, now,
          nextRequestId, recorded, last>>

consentVars == <<consentEntries, pendingRequests, promises, timers, recorded>>

EmptyMap == [k \in {} |-> 0]

Init ==
    /\ dataCache = EmptyMap
    /\ consentEntries = EmptyMap
    /\ pendingRequests = EmptyMap
    /\ promises = << >>
    /\ timers = {}
    /\ now = 0
    /\ nextRequestId = 0
    /\ recorded = EmptyMap
    /\ last = [op |-> "init"]

\* ---------------------------------------------------------------- inputs

Row(id, name, age) == <<Str(id), Str(name), Num(age)>>

\* The table of the scenarios: headers ID, Name, Age.
Table1 ==
    Table(<<Col.ID, Col.Name, Col.Age>>,
          <<Row(<<"1">>, <<"A", "n", "a">>, <<"4", "2">>),
            Row(<<"2">>, <<"B", "o">>, <<"7">>)>>)

Table2 == Table(<<Col.ID>>, << <<Str(<<"9">>)>> >>)

\* A table whose cells hold "$$9", "$&", an empty string, the text of a
\* placeholder and a boolean.
Table3 ==
    Table(<<Col.ID, Col.Name, Col.Age>>,
          <<Row(<<"$", "$", "9">>, <<"$", "&">>, <<"4", "2">>),
            <<Str(<< >>),
              Str(<<"{", "t", "1", ".", "0", ".", "A", "g", "e", "}">>),
              [t |-> "boolean", text |-> <<"t", "r", "u", "e">>]>> >>)

\* A cached entry that is not a table.
TextEntry == [Table1 EXCEPT !.type = "text"]

\* "{t1.0.Age}", "{t1.1.Name}", "{t2.0.ID}" and "ID {t1.0.ID}/{t1.0.Age}"
Placeholder ==
    [Age |-> <<"{", "t", "1", ".", "0", ".", "A", "g", "e", "}">>,
     Name |-> <<"{", "t", "1", ".", "1", ".", "N", "a", "m", "e", "}">>,
     T2 |-> <<"{", "t", "2", ".", "0", ".", "I", "D", "}">>,
     ID |-> <<"{", "t", "1", ".", "0", ".", "I", "D", "}">>,
     Amp |-> <<"{", "t", "1", ".", "0", ".", "N", "a", "m", "e", "}">>,
     Bool |-> <<"{", "t", "1", ".", "1", ".", "A", "g", "e", "}">>,
     Empty |-> <<"{", "t", "1", ".", "1", ".", "I", "D", "}">>,
     Row |-> <<"{", "t", "1", ".", "2", ".", "I", "D", "}">>,
     Zeros |-> <<"{", "t", "1", ".", "0", "1", ".", "A", "g", "e", "}">>,
     Zip |-> <<"{", "t", "1", ".", "0", ".", "Z", "i", "p", "}">>,
     Dotted |-> <<"{", "t", ".", "3", ".", "0", ".", "I", "D", "}">>]
EmbeddedText == <<"I", "D", " ">> \o Placeholder.ID \o <<"/">> \o Placeholder.Age

RequestData ==
    {StringData(Placeholder.Age), StringData(EmbeddedText),
     StringData(<< >>)}

RequestTargets ==
    {[type |-> "client", destination |-> StrDest(Dest.dash)],
     [type |-> "llm", destination |-> StrDest(Dest.gpt4)],
     [type |-> "llm", destination |-> StrDest(Dest.claude3)],
     [type |-> "llm", destination |-> ArrDest(<<Dest.claude3>>)]}

RequestContexts ==
    {NoUsageContext} \cup
    { [present |-> TRUE, data_usage |-> u, host_id |-> HostA,
       tool_name |-> n, target |-> t] :
          u \in {"display", "transfer"}, n \in {<< >>, Name.Invoices},
          t \in RequestTargets }

RequestIds == 1..MaxRequestId

\* The tool the server passes to a handler: looked up by
\* params.usage_context.tool_name.
RoutedTool(params) ==
    IF params.usage_context.present /\ params.usage_context.tool_name # << >>
    THEN FindTool(params.usage_context.tool_name)
    ELSE NoTool

\* ---------------------------------------------------------------- actions

\* tools/call of a registered tool that returns standardizedData.
Execute(tools, ids, tables) ==
    \E tool \in tools, id \in ids, data \in tables :
        LET r == processDataResponse(tool, id, data, dataCache)
        IN  /\ dataCache' = r.cache
            /\ last' = [op |-> "tools/call", tool |-> tool,
                        tool_call_id |-> id, data |-> data,
                        before |-> dataCache, content |-> r.content]
            /\ UNCHANGED <<consentVars, now, nextRequestId>>

\* A handler that created a consent request used up one request id.
Minted(response) ==
    IF response.consent_request.present THEN nextRequestId + 1
    ELSE nextRequestId

\* A variant that drops the entry it has served.
GetDataEvicts(ids, contexts, names) ==
    \E id \in ids, context \in contexts, name \in names :
        LET params == [tool_call_id |-> id, usage_context |-> context,
                       tool_name |-> name]
            tool == RoutedTool(params)
            response == handleGetData(params, tool, defaultMcppConfig,
                                      dataCache, nextRequestId + 1)
        IN  /\ name # << >> => context.tool_name = << >>
            /\ Minted(response) <= MaxRequestId
            /\ nextRequestId' = Minted(response)
            /\ last' = [op |-> "mcpp/get_data", params |-> params,
                        tool |-> tool, response |-> response]
            /\ dataCache' =
                   IF response.kind = "result" THEN Without(dataCache, id)
                   ELSE dataCache
            /\ UNCHANGED <<consentVars, now>>

\* names are the values of params.tool_name, << >> for a request without
\* it; a request names its tool in one place at most.
GetData(ids, contexts, names) ==
    \E id \in ids, context \in contexts, name \in names :
        LET params == [tool_call_id |-> id, usage_context |-> context,
                       tool_name |-> name]
            tool == RoutedTool(params)
            response == handleGetData(params, tool, defaultMcppConfig,
                                      dataCache, nextRequestId + 1)
        IN  /\ name # << >> => context.tool_name = << >>
            /\ Minted(response) <= MaxRequestId
            /\ nextRequestId' = Minted(response)
            /\ last' = [op |-> "mcpp/get_data", params |-> params,
                        tool |-> tool, response |-> response]
            /\ UNCHANGED <<dataCache, consentVars, now>>

ResolvePlaceholders(trees, contexts, names) ==
    \E data \in trees, context \in contexts, name \in names :
        LET params == [data |-> data, usage_context |-> context,
                       tool_name |-> name]
            tool == RoutedTool(params)
            response ==
                handleResolvePlaceholders(params, tool, defaultMcppConfig,
                                          dataCache, nextRequestId + 1)
        IN  /\ name # << >> => context.tool_name = << >>
            /\ Minted(response) <= MaxRequestId
            /\ nextRequestId' = Minted(response)
            /\ last' = [op |-> "mcpp/resolve_placeholders",
                        params |-> params, tool |-> tool,
                        response |-> response]
            /\ UNCHANGED <<dataCache, consentVars, now>>

\* mcpp/find_reference: jaroWinkler gives the similarity of the keyword
\* to each cell text.
FindReferenceWith(jaroWinkler) ==
    \E id \in {<< >>, Call.T1, Call.T2, Call.Dotted},
       keyword \in {<< >>, <<"a", "n", "a">>},
       column \in {<< >>, Col.ID, Col.Name, Col.Age, <<"Z", "i", "p">>} :
        LET params == [tool_call_id |-> id, keyword |-> keyword,
                       column_name |-> column]
        IN  /\ last' = [op |-> "mcpp/find_reference", params |-> params,
                        jaroWinkler |-> jaroWinkler,
                        response |-> handleFindReference(
                                         params, dataCache, jaroWinkler)]
            /\ UNCHANGED <<dataCache, consentVars, now, nextRequestId>>

\* ids are the values of params.request_id (0 when it is missing),
\* remembers those of params.remember.
McppProvideConsent(ids, remembers) ==
    \E id \in ids, decision \in Decisions \cup {"", "maybe"},
       remember \in remembers, minutes \in {0, 1} :
        LET params == [request_id |-> id, decision |-> decision,
                       remember |-> remember, duration_minutes |-> minutes]
            r == handleProvideConsent(params, pendingRequests, promises,
                                      timers)
        IN  /\ pendingRequests' = r.state.pending
            /\ promises' = r.state.promises
            /\ timers' = r.state.timers
            /\ last' = [op |-> "mcpp/provide_consent", params |-> params,
                        response |-> r.response, at |-> now]
            /\ UNCHANGED <<dataCache, consentEntries, recorded, now,
                           nextRequestId>>

\* ------------------------------------------------ consent cache actions

TimeoutSeconds == {defaultMcppConfig.consent_timeout_seconds}
DurationMinutes == {1}
Horizon == MaxTicks * TickMs

CacheKeys ==
    {generateCacheKey(HostA, Dest.gpt4, "transfer", << >>),
     generateCacheKey(HostA, Dest.claude3, "transfer", Name.Invoices)}

\* Some awaiter of requestId has neither a decision nor a timeout yet.
Awaited(requestId) ==
    \E p \in DOMAIN promises :
        promises[p].requestId = requestId /\ promises[p].state = "pending"

Store(requestId, seconds) ==
    LET r == storePendingRequest(pendingRequests, promises, timers,
                                 requestId, seconds, now)
    IN  /\ Len(promises) < MaxPromises
        /\ now + seconds * MsPerSecond <= Horizon
        /\ pendingRequests' = r.pending
        /\ promises' = r.promises
        /\ timers' = r.timers
        /\ last' = [op |-> "storePendingRequest", requestId |-> requestId,
                    timeoutSeconds |-> seconds, at |-> now]
        /\ UNCHANGED <<dataCache, consentEntries, recorded, now,
                       nextRequestId>>

\* storePendingRequest with a request id no awaiter is waiting on: request
\* ids are unique.
StoreFresh(ids) ==
    \E requestId \in ids, seconds \in TimeoutSeconds :
        /\ ~Awaited(requestId)
        /\ Store(requestId, seconds)

StorePendingRequest == StoreFresh(RequestIds)

ResolveStep(requestId, decision) ==
    LET r == resolveConsentRequest(pendingRequests, promises, timers,
                                   requestId, decision)
    IN  /\ pendingRequests' = r.pending
        /\ promises' = r.promises
        /\ timers' = r.timers
        /\ last' = [op |-> "resolveConsentRequest", requestId |-> requestId,
                    decision |-> decision, result |-> r.ok, at |-> now]
        /\ UNCHANGED <<dataCache, consentEntries, recorded, now,
                       nextRequestId>>

ResolveConsentRequest ==
    \E requestId \in RequestIds, decision \in Decisions :
        ResolveStep(requestId, decision)

TimeoutStep(timer) ==
    LET r == TimeoutCallback(pendingRequests, promises, timers, timer)
    IN  /\ timer \in timers
        /\ timer.due <= now
        /\ pendingRequests' = r.pending
        /\ promises' = r.promises
        /\ timers' = r.timers
        /\ last' = [op |-> "timeout", requestId |-> timer.requestId,
                    at |-> now]
        /\ UNCHANGED <<dataCache, consentEntries, recorded, now,
                       nextRequestId>>

\* A timeout that is due runs its callback.
TimeoutFires == \E timer \in timers : TimeoutStep(timer)

\* Time passes.
Tick ==
    /\ now + TickMs <= Horizon
    /\ now' = now + TickMs
    /\ UNCHANGED <<dataCache, consentVars, nextRequestId, last>>

SetConsent ==
    \E cacheKey \in CacheKeys, decision \in Decisions,
       minutes \in DurationMinutes :
        /\ consentEntries' =
               setConsent(consentEntries, cacheKey, decision, minutes, now)
        /\ recorded' =
               (cacheKey :> [decision |-> decision, at |-> now,
                             minutes |-> minutes]) @@ recorded
        /\ last' = [op |-> "setConsent", cacheKey |-> cacheKey,
                    decision |-> decision, minutes |-> minutes, at |-> now]
        /\ UNCHANGED <<dataCache, pendingRequests, promises, timers, now,
                       nextRequestId>>

GetConsent ==
    \E cacheKey \in CacheKeys :
        LET r == getConsent(consentEntries, cacheKey, now)
        IN  /\ consentEntries' = r.cache
            /\ last' = [op |-> "getConsent", cacheKey |-> cacheKey,
                        result |-> r.decision, at |-> now]
            /\ UNCHANGED <<dataCache, pendingRequests, promises, timers,
                           recorded, now, nextRequestId>>

\* -------------------------------------------------------- specifications

\* The data path of the server: tool execution and the two methods that
\* return cached data.
Next ==
    \/ Execute(ZOHO_TOOLS, {Call.T1, Call.T2}, {Table1, Table2})
    \/ GetData({Call.T1, Call.T2} \cup {<< >>}, RequestContexts,
                {<< >>, Name.Invoices})
    \/ ResolvePlaceholders(RequestData, RequestContexts,
                            {<< >>, Name.Invoices})

Spec == Init /\ [][Next]_vars

\* The consent flow of the server: a sensitive tool's data, requests of
\* host-a to send it to an LLM, mcpp/provide_consent, and the consent cache
\* as the embedding code may use it.
FlowContexts ==
    { UsageContext(u, HostA, n, "llm", StrDest(d)) :
          u \in {"display", "transfer"}, n \in {<< >>, Name.Invoices},
          d \in {Dest.gpt4, Dest.claude3} }

\* The embedding code can store only a request id that was created.
FlowStorePendingRequest ==
    /\ Len(promises) < MaxFlowPromises
    /\ StoreFresh(1..nextRequestId)

FlowNext ==
    \/ Execute({ToolInvoices}, {Call.T1}, {Table1})
    \/ GetData({Call.T1}, FlowContexts, {<< >>})
    \/ ResolvePlaceholders({StringData(Placeholder.Age)}, FlowContexts,
                           {<< >>})
    \/ McppProvideConsent(RequestIds \cup {0}, BOOLEAN)
    \/ FlowStorePendingRequest
    \/ SetConsent

FlowSpec == Init /\ [][FlowNext]_vars

\* The methods that read the data cache, next to the writers of the three
\* stores: tool execution, storePendingRequest and setConsent.  The
\* keyword of find_reference is equally similar to every cell.
FrameSpec ==
    Init /\ [][\/ Execute({ToolInvoices, ToolItems}, {Call.T1}, {Table1})
               \/ GetData({Call.T1, Call.T2}, FlowContexts, {<< >>})
               \/ ResolvePlaceholders({StringData(Placeholder.Age)},
                                      FlowContexts, {<< >>})
               \/ FindReferenceWith(
                      [text \in { toLowerCase(String(Table1.rows[i][j])) :
                                     i \in 1..2, j \in 1..3 } |->
                          SIMILARITY_THRESHOLD + 200])
               \/ FlowStorePendingRequest
               \/ SetConsent]_vars

\* The policy evaluator on its own: the initial states draw a tool, a
\* usage context and a configuration, and Evaluate applies
\* validateDataAccess to them.
PolicyUsage ==
    {NoUsagePermissions, AllAllowed, ToolInvoices.usage,
     [NoUsagePermissions EXCEPT !["transfer"] = "allow"],
     [AllAllowed EXCEPT !["display"] = "deny"]}

TargetPermissions(blocked, allowed, blockedServers, allowedServers, clients) ==
    [hasTargetPermissions |-> TRUE, blocked_targets |-> blocked,
     allowed_targets |-> allowed, blocked_servers |-> blockedServers,
     allowed_servers |-> allowedServers, allowed_clients |-> clients]

PolicyTargets ==
    {[hasTargetPermissions |-> FALSE, blocked_targets |-> {},
      allowed_targets |-> AbsentList, blocked_servers |-> {},
      allowed_servers |-> AbsentList, allowed_clients |-> AbsentList],
     TargetPermissions({Dest.gpt4}, ListOf({Dest.gpt4, Dest.claude3}), {},
                       AbsentList, AbsentList),
     TargetPermissions({Dest.gpt4}, AbsentList, {}, AbsentList, AbsentList),
     TargetPermissions({}, NoneList, {}, AbsentList, AbsentList),
     TargetPermissions({}, ListOf({Dest.claude3, Dest.api_company}), {},
                       AbsentList, AbsentList),
     TargetPermissions({}, AllList, {Dest.external_api},
                       ListOf({Dest.external_api, Dest.api_company}),
                       NoneList)}

Overrides(always, never, message, allowed) ==
    [hasOverrides |-> TRUE, always_require_consent |-> always,
     never_require_consent |-> never, custom_consent_message |-> message,
     allowed_without_consent |-> allowed]

PolicyOverrides ==
    {[hasOverrides |-> FALSE, always_require_consent |-> FALSE,
      never_require_consent |-> FALSE, custom_consent_message |-> "absent",
      allowed_without_consent |-> {}],
     Overrides(FALSE, TRUE, "absent", {}),
     Overrides(TRUE, FALSE, "custom", {Dest.gpt4}),
     Overrides(TRUE, TRUE, "absent", {}),
     Overrides(FALSE, FALSE, "absent", {Dest.gpt4, Dest.external_api})}

PolicyTools ==
    {NoTool} \cup
    { [present |-> TRUE, name |-> Name.Invoices, isSensitive |-> sensitive,
       usage |-> usage,
       hasTargetPermissions |-> t.hasTargetPermissions,
       blocked_targets |-> t.blocked_targets,
       allowed_targets |-> t.allowed_targets,
       blocked_servers |-> t.blocked_servers,
       allowed_servers |-> t.allowed_servers,
       allowed_clients |-> t.allowed_clients,
       hasOverrides |-> o.hasOverrides,
       always_require_consent |-> o.always_require_consent,
       never_require_consent |-> o.never_require_consent,
       custom_consent_message |-> o.custom_consent_message,
       allowed_without_consent |-> o.allowed_without_consent] :
          sensitive \in BOOLEAN, usage \in PolicyUsage, t \in PolicyTargets,
          o \in PolicyOverrides }

PolicyDestinations ==
    {[type |-> "client", destination |-> StrDest(Dest.dash)],
     [type |-> "llm", destination |-> StrDest(Dest.gpt4)],
     [type |-> "llm", destination |-> StrDest(Dest.claude3)],
     [type |-> "llm", destination |-> ArrDest(<<Dest.gpt4>>)],
     [type |-> "llm", destination |-> ArrDest(<<Dest.claude3>>)],
     [type |-> "server", destination |-> StrDest(Dest.external_api)],
     [type |-> "server", destination |-> StrDest(Dest.api_company)],
     [type |-> "server", destination |-> StrDest(Dest.evilcompany)],
     [type |-> "server", destination |-> ArrDest(<<Dest.evilcompany>>)],
     [type |-> "server", destination |-> NoDestination]}

PolicyContexts ==
    { [present |-> TRUE, data_usage |-> u, host_id |-> HostA,
       tool_name |-> << >>, target |-> t] :
          u \in DataUsages, t \in PolicyDestinations }

PolicyConfigs ==
    {defaultMcppConfig,
     [defaultMcppConfig EXCEPT
         !.default_target_policy.llm = "deny",
         !.default_target_policy.client = "deny",
         !.default_target_policy.server = NoneList],
     [defaultMcppConfig EXCEPT
         !.default_target_policy.server = ListOf({Dest.external_api}),
         !.default_data_usage_policy =
             [display |-> "allow", process |-> "deny", store |-> "allow",
              transfer |-> "allow"],
         !.require_consent_for.any_transfer = TRUE],
     [defaultMcppConfig EXCEPT
         !.default_data_usage_policy = AllAllowed,
         !.require_consent_for =
             [sensitive_data_transfer |-> FALSE,
              external_server_transfer |-> FALSE,
              cross_domain_transfer |-> FALSE, llm_data_access |-> FALSE,
              any_transfer |-> FALSE],
         !.trusted_domains = {}]}

PolicyInit ==
    /\ dataCache = EmptyMap
    /\ consentEntries = EmptyMap
    /\ pendingRequests = EmptyMap
    /\ promises = << >>
    /\ timers = {}
    /\ now = 0
    /\ nextRequestId = 0
    /\ recorded = EmptyMap
    /\ last \in { [op |-> "input", tool |-> tool, usageContext |-> context,
                   serverConfig |-> config] :
                      tool \in PolicyTools, context \in PolicyContexts,
                      config \in PolicyConfigs }

Evaluate ==
    /\ last.op = "input"
    /\ LET result == validateDataAccess(last.tool, last.usageContext,
                                        last.serverConfig, nextRequestId + 1)
       IN  /\ last' = [op |-> "validateDataAccess", tool |-> last.tool,
                       usageContext |-> last.usageContext,
                       serverConfig |-> last.serverConfig,
                       result |-> result]
           /\ nextRequestId' =
                  IF result.consent_request.present THEN nextRequestId + 1
                  ELSE nextRequestId
    /\ UNCHANGED <<dataCache, consentVars, now>>

PolicySpec == PolicyInit /\ [][Evaluate]_vars

\* Placeholder resolution: the trees of params.data, a first pass by the
\* handler and a second pass of the walk over the first pass's
\* resolved_data.
ResolveData ==
    { StringData(Placeholder[f]) : f \in DOMAIN Placeholder } \cup
    {StringData(EmbeddedText),
     StringData(Placeholder.ID \o Placeholder.ID),
     StringData(Placeholder.Name \o <<" ">> \o Placeholder.Age),
     StringData(<<"a">> \o Placeholder.Row \o Placeholder.ID
                    \o Placeholder.Zip),
     StringData(<<"x">> \o Placeholder.Amp),
     StringData(<<"h", "i">>),
     ArrayData(<<StringData(Placeholder.Age), StringData(EmbeddedText),
                 NullData>>),
     ObjectData(<<"k", "j">>,
                <<StringData(Placeholder.Name),
                  ArrayData(<<StringData(Placeholder.Zip)>>)>>)}

\* The caches tools/call can have filled: t1 holds one of three entries
\* or none, t2 and t.3 hold Table2 or nothing.
ResolveCaches ==
    LET ids == {Call.T1, Call.T2, Call.Dotted}
        Entries(id) ==
            IF id = Call.T1 THEN {Table1, Table3, TextEntry} ELSE {Table2}
    IN  UNION { { cache \in [D -> {Table1, Table2, Table3, TextEntry}] :
                      \A id \in D : cache[id] \in Entries(id) } :
                D \in SUBSET ids }

ResolveInit ==
    /\ dataCache \in ResolveCaches
    /\ consentEntries = EmptyMap
    /\ pendingRequests = EmptyMap
    /\ promises = << >>
    /\ timers = {}
    /\ now = 0
    /\ nextRequestId = 0
    /\ recorded = EmptyMap
    /\ last = [op |-> "init"]

ResolveAgain ==
    /\ last.op = "mcpp/resolve_placeholders"
    /\ last.response.kind = "result"
    /\ last' = [op |-> "resolveWithTracking", first |-> last,
                second |-> resolveWithTracking(last.response.resolved_data,
                                               NoTracking, dataCache)]
    /\ UNCHANGED <<dataCache, consentVars, now, nextRequestId>>

ResolveNext ==
    \/ ResolvePlaceholders(ResolveData, {NoUsageContext}, {<< >>})
    \/ ResolveAgain

ResolveSpec == ResolveInit /\ [][ResolveNext]_vars

\* mcpp/find_reference: the cache and the similarities the jaro-winkler
\* package gives for the keyword are drawn at the start; one request
\* follows.
FindInit ==
    /\ dataCache \in
           {(Call.T1 :> Table1) @@ (Call.T2 :> Table(<<Col.ID>>, << >>)),
            Call.T1 :> TextEntry,
            Call.Dotted :> Table1}
    /\ consentEntries = EmptyMap
    /\ pendingRequests = EmptyMap
    /\ promises = << >>
    /\ timers = {}
    /\ now = 0
    /\ nextRequestId = 0
    /\ recorded = EmptyMap
    /\ last \in { [op |-> "input", jaroWinkler |-> scores] :
                     scores \in [{ toLowerCase(String(Table1.rows[i][j])) :
                                      i \in 1..2, j \in 1..3 }
                                     -> {SIMILARITY_THRESHOLD,
                                         SIMILARITY_THRESHOLD + 1,
                                         SIMILARITY_THRESHOLD + 200}] }

FindReference == last.op = "input" /\ FindReferenceWith(last.jaroWinkler)

\* The placeholder that find_reference returned is given to the resolver.
ResolveFound ==
    /\ last.op = "mcpp/find_reference"
    /\ last.response.kind = "result"
    /\ last' = [op |-> "resolveWithTracking", found |-> last,
                resolved |->
                    resolveWithTracking(StringData(last.response.placeholder),
                                        NoTracking, dataCache)]
    /\ UNCHANGED <<dataCache, consentVars, now, nextRequestId>>

FindSpec == FindInit /\ [][FindReference \/ ResolveFound]_vars

\* tools/call alone, with and without params.tool_call_id (<< >> stands
\* for a request that has none).
ToolsSpec ==
    Init /\ [][Execute(ZOHO_TOOLS, {<< >>, Call.T1, Call.T2},
                       {Table1, Table2})]_vars

\* The pending-request table of the consent cache, with time: a timeout
\* that is due eventually runs and time keeps passing.
PendingNext ==
    \/ StorePendingRequest
    \/ ResolveConsentRequest
    \/ TimeoutFires
    \/ Tick

PendingSpec ==
    Init /\ [][PendingNext]_vars /\ WF_vars(Tick) /\ WF_vars(TimeoutFires)

\* The pending-request table when storePendingRequest may be called again
\* with a request id that is still pending.
StoreAgainSpec ==
    Init /\ [][\/ \E requestId \in RequestIds, seconds \in TimeoutSeconds :
                      Store(requestId, seconds)
               \/ ResolveConsentRequest
               \/ TimeoutFires
               \/ Tick]_vars

\* The decision cache of the consent cache, with time.
CacheNext ==
    \/ SetConsent
    \/ GetConsent
    \/ Tick

CacheSpec == Init /\ [][CacheNext]_vars

\* mcpp/provide_consent against the pending-request table, with time:
\* requests are stored, answered through the endpoint with remember set,
\* and time out.
ConsentSpec ==
    Init /\ [][\/ StoreFresh({1, 2})
               \/ McppProvideConsent({0, 1, 2}, {TRUE})
               \/ TimeoutFires
               \/ Tick]_vars

\* ------------------------------------------------------------ properties

Count(events, e) == Cardinality({ i \in DOMAIN events : events[i] = e })

\* C1: mcpp/get_data returns the cached entry only if a policy evaluation
\* made for that request returned allowed; a request that was not
\* evaluated gets no payload.
C1_GetDataOnlyAfterAllow ==
    (last.op = "mcpp/get_data" /\ last.response.kind = "result")
        => (last.response.evaluated /\ last.response.validation.allowed)

Outcome(result) ==
    IF result.threw THEN "throw"
    ELSE IF result.allowed THEN "allow"
    ELSE IF result.error_code = "CONSENT_REQUIRED"
            /\ result.consent_request.present THEN "prompt"
    ELSE IF result.error_code = "INSUFFICIENT_PERMISSIONS"
            /\ ~result.consent_request.present THEN "deny"
    ELSE "other"

\* C3: for every tool, usage context and configuration validateDataAccess
\* returns deny if the usage step or the target step denied, otherwise
\* prompt if the usage step prompted or the consent check requires
\* consent, otherwise allow; a denied target yields no consent request.
C3_Composition ==
    last.op = "validateDataAccess"
        => LET usage ==
                   getEffectiveDataUsagePermission(
                       last.tool, last.usageContext.data_usage,
                       last.serverConfig)
               target ==
                   validateTargetPermissions(last.tool, last.usageContext,
                                             last.serverConfig)
               consent ==
                   checkConsentRequired(last.tool, last.usageContext,
                                        last.serverConfig)
           IN  Outcome(last.result) =
                   IF usage = "deny" \/ ~target.allowed THEN "deny"
                   ELSE IF usage = "prompt"
                           \/ (~consent.threw /\ consent.consent_required)
                   THEN "prompt"
                   ELSE "allow"

\* C4: a response that carries CONSENT_REQUIRED with request id R leaves R
\* in the pending table, so that mcpp/provide_consent for R succeeds.
C4_ConsentRequestIsPending ==
    (/\ last.op \in {"mcpp/get_data", "mcpp/resolve_placeholders"}
     /\ last.response.code = "CONSENT_REQUIRED")
        => last.response.consent_request.request_id \in DOMAIN pendingRequests

\* The cache key of a request's usage context.
KeyOf(context) ==
    generateCacheKey(context.host_id, context.target.destination.s,
                     context.data_usage, context.tool_name)

\* C5: a request whose key has an unexpired cached allow is not answered
\* with a consent request.
C5_CachedAllowShortCircuits ==
    (/\ last.op \in {"mcpp/get_data", "mcpp/resolve_placeholders"}
     /\ last.params.usage_context.present
     /\ KeyOf(last.params.usage_context) \in DOMAIN consentEntries
     /\ consentEntries[KeyOf(last.params.usage_context)].decision = "allow"
     /\ ~(now > ExpiryTime(consentEntries[KeyOf(last.params.usage_context)])))
        => last.response.code # "CONSENT_REQUIRED"

\* C6: a successful mcpp/provide_consent with remember and a positive
\* duration, which reports remembered, has recorded the decision in the
\* decision cache.
C6_RememberedIsRecorded ==
    (/\ last.op = "mcpp/provide_consent"
     /\ last.response.kind = "result"
     /\ last.params.remember
     /\ last.params.duration_minutes > 0
     /\ last.response.remembered)
        => \E k \in DOMAIN consentEntries :
               /\ consentEntries[k].decision = last.params.decision
               /\ consentEntries[k].timestamp = last.at
               /\ consentEntries[k].duration_minutes =
                      last.params.duration_minutes

\* C7: a resolve call returns true only for a request id an awaiter is
\* waiting on, completes that awaiter with the decision and ends the
\* waiting, so that a later call for the id returns false; a call for an
\* id nobody waits on returns false and changes nothing.
C7_ResolvedAtMostOnce ==
    [][\A requestId \in RequestIds, decision \in Decisions :
           ResolveStep(requestId, decision) =>
               IF Awaited(requestId)
               THEN /\ last'.result
                    /\ ~Awaited(requestId)'
                    /\ \E p \in DOMAIN promises :
                           /\ promises[p].requestId = requestId
                           /\ promises[p].state = "pending"
                           /\ promises'[p].state = decision
               ELSE /\ ~last'.result
                    /\ UNCHANGED <<pendingRequests, promises, timers>>]_vars

\* A second resolve call for a request id that was resolved.
C7_Witness ==
    /\ last.op = "resolveConsentRequest"
    /\ ~last.result
    /\ \E p \in DOMAIN promises :
           /\ promises[p].requestId = last.requestId
           /\ promises[p].state \in Decisions

\* The outcome of a promise never changes once it has one.
OutcomeIsFinal ==
    \A p \in DOMAIN promises :
        promises[p].state # "pending" => promises'[p] = promises[p]

\* C8: the awaiter of a stored request gets exactly one outcome: a resolve
\* call made while it waits gives it the decision and clears its timeout;
\* otherwise the timeout gives it "timeout" and removes the id from the
\* pending table, and a later resolve call returns false; every awaiter
\* eventually has its outcome.
C8_ExactlyOneOutcome ==
    /\ [][/\ OutcomeIsFinal
          /\ \A requestId \in RequestIds, decision \in Decisions :
                 (ResolveStep(requestId, decision) /\ Awaited(requestId)) =>
                     \E p \in DOMAIN promises :
                         /\ promises[p].requestId = requestId
                         /\ promises'[p].state = decision
                         /\ \A t \in timers' : t.promise # p
          /\ \A timer \in timers :
                 TimeoutStep(timer) =>
                     /\ promises[timer.promise].state = "pending"
                     /\ promises'[timer.promise].state = "timeout"
                     /\ timer.requestId \notin DOMAIN pendingRequests'
          /\ \A requestId \in RequestIds, decision \in Decisions :
                 (/\ ResolveStep(requestId, decision)
                  /\ \E p \in DOMAIN promises :
                         /\ promises[p].requestId = requestId
                         /\ promises[p].state = "timeout"
                  /\ ~Awaited(requestId)) => ~last'.result]_vars
    /\ \A p \in 1..MaxPromises :
           (p \in DOMAIN promises)
               ~> (p \in DOMAIN promises /\ promises[p].state # "pending")

\* A resolve call that came after the timeout of its request.
C8_Witness ==
    /\ last.op = "resolveConsentRequest"
    /\ ~last.result
    /\ last.requestId \notin DOMAIN pendingRequests
    /\ \E p \in DOMAIN promises :
           /\ promises[p].requestId = last.requestId
           /\ promises[p].state = "timeout"

\* C9: a lookup made no later than the duration after the latest record of
\* its key returns the recorded decision; a later lookup returns null and
\* the entry is gone.
C9_Freshness ==
    last.op = "getConsent"
        => IF last.cacheKey \in DOMAIN recorded
           THEN LET r == recorded[last.cacheKey]
                IN  IF last.at - r.at
                           <= r.minutes * SecondsPerMinute * MsPerSecond
                    THEN /\ last.result = r.decision
                         /\ last.cacheKey \in DOMAIN consentEntries
                    ELSE /\ last.result = "null"
                         /\ last.cacheKey \notin DOMAIN consentEntries
           ELSE last.result = "null"

\* A lookup of a recorded key after its duration.
C9_Witness ==
    /\ last.op = "getConsent"
    /\ last.cacheKey \in DOMAIN recorded
    /\ last.at - recorded[last.cacheKey].at
           > recorded[last.cacheKey].minutes * SecondsPerMinute * MsPerSecond
    /\ last.result = "null"

\* C10: when the tool grants allow at a level, an evaluation at a lower
\* level for which the tool has no entry of its own is neither denied nor
\* prompted on data-usage grounds.
C10_HierarchyGrantsLower ==
    (/\ last.op = "validateDataAccess"
     /\ last.tool.present
     /\ last.tool.usage[last.usageContext.data_usage] = "absent"
     /\ \E level \in DataUsages :
            /\ LevelOf(level) > LevelOf(last.usageContext.data_usage)
            /\ last.tool.usage[level] = "allow")
        => /\ last.result.validation_details.data_usage_valid
           /\ last.result.validation_details.consent_check.reason
                  # <<"prompt_required">>

\* C11: for a tool whose policy denies display, every evaluation at
\* process, store or transfer is denied as well.
C11_DisplayDenialIsMonotone ==
    (/\ last.op = "validateDataAccess"
     /\ last.tool.present
     /\ last.tool.usage["display"] = "deny"
     /\ last.usageContext.data_usage # "display")
        => Outcome(last.result) = "deny"

\* C12: the tool-level target evaluation denies a destination listed in
\* blocked_targets with <type>_blocked_by_tool, also when allowed_targets
\* lists it; it denies allowed_targets 'none' with no_targets_allowed and
\* a list that does not contain the destination with
\* <type>_not_in_allowlist; the denial surfaces as
\* INSUFFICIENT_PERMISSIONS with no consent request.
C12_ToolTargetEvaluation ==
    (/\ last.op = "validateDataAccess"
     /\ last.tool.present
     /\ last.tool.hasTargetPermissions)
        => LET tool == last.tool
               target == last.usageContext.target
               destination == target.destination
               verdict ==
                   validateTargetPermissions(tool, last.usageContext,
                                             last.serverConfig)
               Denies(reason) ==
                   /\ ~verdict.allowed
                   /\ verdict.reason = reason
                   /\ getEffectiveDataUsagePermission(
                          tool, last.usageContext.data_usage,
                          last.serverConfig) # "deny"
                        => /\ last.result.error_code
                                  = "INSUFFICIENT_PERMISSIONS"
                           /\ last.result.error_message
                                  = <<"Target access denied">> \o reason
                           /\ ~last.result.consent_request.present
                           /\ ~last.result.allowed
           IN  IF destination.k = "string"
                  /\ destination.s \in tool.blocked_targets
               THEN Denies(<<target.type, "blocked_by_tool">>)
               ELSE IF tool.allowed_targets.k = "none"
               THEN Denies(<<"no_targets_allowed">>)
               ELSE IF tool.allowed_targets.k = "list"
                       /\ Truthy(destination)
                       /\ (destination.k = "array"
                           \/ destination.s \notin tool.allowed_targets.l)
               THEN Denies(<<target.type, "not_in_allowlist">>)
               ELSE TRUE

\* C13: a request whose params.tool_name names a registered tool that
\* blocks the target is denied with that tool's reason.
C13_ToolNameParameter ==
    (/\ last.op \in {"mcpp/get_data", "mcpp/resolve_placeholders"}
     /\ last.params.tool_name # << >>
     /\ last.params.usage_context.present
     /\ last.params.usage_context.target.destination.k = "string"
     /\ last.params.usage_context.target.destination.s
            \in FindTool(last.params.tool_name).blocked_targets
     /\ last.response.code \notin {"INVALID_PARAMS", "DATA_NOT_FOUND"})
        => /\ last.response.code = "INSUFFICIENT_PERMISSIONS"
           /\ last.response.validation.error_message
                  = <<"Target access denied",
                      last.params.usage_context.target.type,
                      "blocked_by_tool">>

\* C14: when the effective data-usage permission is prompt and the target
\* is not denied, the evaluator returns CONSENT_REQUIRED with a consent
\* request, whether or not a consent trigger fired or an exemption
\* applies.
C14_PromptIsATrigger ==
    (/\ last.op = "validateDataAccess"
     /\ getEffectiveDataUsagePermission(
            last.tool, last.usageContext.data_usage, last.serverConfig)
            = "prompt"
     /\ validateTargetPermissions(last.tool, last.usageContext,
                                  last.serverConfig).allowed)
        => /\ ~last.result.threw
           /\ ~last.result.allowed
           /\ last.result.error_code = "CONSENT_REQUIRED"
           /\ last.result.consent_request.present

\* C15: configurations that differ only in the trust_level of
\* target_categories entries give the same decision, the same consent
\* check and the same target verdict for every tool and usage context.
C15_TrustLevelNotLoadBearing ==
    last.op = "validateDataAccess"
        => \A level \in {"low", "medium", "high"} :
               LET categories == last.serverConfig.target_categories
                   other ==
                       [last.serverConfig EXCEPT
                           !.target_categories =
                               [d \in DOMAIN categories |->
                                   [categories[d] EXCEPT
                                       !.trust_level = level]]]
                   result ==
                       validateDataAccess(last.tool, last.usageContext,
                                          other, last.result.consent_request.request_id)
               IN  /\ Outcome(result) = Outcome(last.result)
                   /\ result.error_code = last.result.error_code
                   /\ result.validation_details
                          = last.result.validation_details

\* A destination that has a category entry and needs consent.
C15_Witness ==
    /\ last.op = "validateDataAccess"
    /\ last.usageContext.target.destination = StrDest(Dest.gpt4)
    /\ CategoryOf(last.serverConfig, StrDest(Dest.gpt4)).present
    /\ Outcome(last.result) = "prompt"
    /\ last.result.validation_details.consent_check.reason
           = <<"llm_data_access_policy">>

\* C16: for every cached table id, every row r below rows.length and
\* every column c of headers, resolving the string "{id.r.c}" alone gives
\* the cell rows[r][index of c] with its type.
C16_PlaceholderRoundTrip ==
    \A id \in DOMAIN dataCache :
        LET entry == dataCache[id]
            digits == <<"0", "1", "2", "3", "4", "5", "6", "7", "8", "9">>
        IN  entry.type = "table"
                => \A r \in DOMAIN entry.rows, c \in DOMAIN entry.headers :
                       (/\ last.op = "mcpp/resolve_placeholders"
                        /\ last.params.data =
                               StringData(<<"{">> \o id \o <<".", digits[r], ".">>
                                              \o entry.headers[c] \o <<"}">>))
                           => /\ last.response.kind = "result"
                              /\ last.response.resolved_data =
                                     ValueData(entry.rows[r][c])

\* C17: in a string that is more than one placeholder, every resolvable
\* placeholder is replaced where it stands by the text of its cell, and
\* everything else, unresolvable placeholders included, stays as it was.
C17_EmbeddedInPlace ==
    (/\ last.op = "mcpp/resolve_placeholders"
     /\ last.params.data.k = "string"
     /\ last.params.data.s # << >>
     /\ ~SINGLE_PLACEHOLDER_REGEX(last.params.data.s))
        => /\ last.response.kind = "result"
           /\ last.response.resolved_data =
                  StringData(resolveArgumentPlaceholders(
                                 last.params.data.s, 1, dataCache))

\* C18: for a fixed cache, resolving the output of a resolution returns
\* it unchanged and counts exactly the placeholders that failed in the
\* first pass (none after a fully successful one).
C18_Idempotent ==
    last.op = "resolveWithTracking"
        => LET first == last.first.response
               failed == first.resolution_status.failed_placeholders
               second == last.second
           IN  /\ second.value = first.resolved_data
               /\ second.tracking.total_placeholders = Len(failed)
               /\ second.tracking.resolved_placeholders = 0
               /\ second.tracking.failed_placeholders = failed

\* C19: total_placeholders is the number of placeholder occurrences in
\* the tree, it is the sum of resolved_placeholders and the number of
\* failed ones, and the failed list is the list of the occurrences left
\* in resolved_data.
C19_Tracking ==
    (last.op = "mcpp/resolve_placeholders" /\ last.response.kind = "result")
        => LET status == last.response.resolution_status
           IN  /\ status.total_placeholders
                      = Len(countPlaceholders(last.params.data))
               /\ status.total_placeholders
                      = status.resolved_placeholders
                            + Len(status.failed_placeholders)
               /\ status.failed_placeholders
                      = countPlaceholders(last.response.resolved_data)

\* a is b with some elements left out.
RECURSIVE Subsequence(_, _)
Subsequence(a, b) ==
    IF a = << >> THEN TRUE
    ELSE IF b = << >> THEN FALSE
    ELSE IF Head(a) = Head(b) THEN Subsequence(Tail(a), Tail(b))
    ELSE Subsequence(a, Tail(b))

\* C20: a placeholder resolves exactly when the cache holds its call id,
\* the entry is a table, its column is one of the headers and its row
\* index is below the number of rows; every other placeholder is recorded
\* as failed and stays in the output, and the response is a result.
C20_ResolvesIff ==
    (last.op = "mcpp/resolve_placeholders" /\ ~Falsy(last.params.data))
        => LET status == last.response.resolution_status
               occurrences == countPlaceholders(last.params.data)
               Resolvable(text) ==
                   LET parts == Split(SubSeq(text, 2, Len(text) - 1), ".")
                       id == parts[1]
                       row == parseInt(parts[2])
                   IN  /\ id \in DOMAIN dataCache
                       /\ dataCache[id].type = "table"
                       /\ \E c \in DOMAIN dataCache[id].headers :
                              dataCache[id].headers[c] = parts[3]
                       /\ row < Len(dataCache[id].rows)
               failing == SelectSeq(occurrences, LAMBDA p : ~Resolvable(p))
           IN  /\ last.response.kind = "result"
               /\ status.resolved_placeholders
                      = Len(occurrences) - Len(failing)
               /\ status.failed_placeholders = failing
               /\ Subsequence(failing,
                      countPlaceholders(last.response.resolved_data))

\* One placeholder resolved and two failed (row out of range, unknown
\* column) in one string, and t1 is a table.
C20_Witness ==
    /\ last.op = "mcpp/resolve_placeholders"
    /\ Call.T1 \in DOMAIN dataCache
    /\ dataCache[Call.T1].type = "table"
    /\ last.response.kind = "result"
    /\ last.response.resolution_status.resolved_placeholders = 1
    /\ last.response.resolution_status.failed_placeholders
           = <<Placeholder.Row, Placeholder.Zip>>

\* C21: find_reference returns a placeholder exactly when the greatest
\* similarity over the scanned cells (those of column_name when given,
\* else all) is strictly above 0.7; the similarity returned is that
\* maximum and the placeholder names the first cell, by row and then by
\* header, that attains it.
C21_FindReferenceMaximum ==
    (/\ last.op = "mcpp/find_reference"
     /\ last.params.keyword # << >>
     /\ last.params.tool_call_id \in DOMAIN dataCache
     /\ dataCache[last.params.tool_call_id].type = "table"
     /\ \/ last.params.column_name = << >>
        \/ \E j \in DOMAIN dataCache[last.params.tool_call_id].headers :
               dataCache[last.params.tool_call_id].headers[j]
                   = last.params.column_name)
        => LET id == last.params.tool_call_id
               entry == dataCache[id]
               scanned ==
                   { c \in (DOMAIN entry.rows) \X (DOMAIN entry.headers) :
                       \/ last.params.column_name = << >>
                       \/ c[2] = IndexOf(entry.headers,
                                         last.params.column_name) }
               score(c) ==
                   last.jaroWinkler[toLowerCase(String(entry.rows[c[1]][c[2]]))]
               Before(c, d) == c[1] < d[1] \/ (c[1] = d[1] /\ c[2] < d[2])
               digits == <<"0", "1", "2", "3", "4", "5", "6", "7", "8", "9">>
           IN  IF \E c \in scanned : score(c) > SIMILARITY_THRESHOLD
               THEN LET best ==
                            CHOOSE c \in scanned :
                                /\ \A d \in scanned : score(d) <= score(c)
                                /\ \A d \in scanned :
                                       score(d) = score(c) => ~Before(d, c)
                    IN  /\ last.response.kind = "result"
                        /\ last.response.similarity = score(best)
                        /\ last.response.placeholder =
                               <<"{">> \o id \o <<".", digits[best[1]], ".">>
                                   \o entry.headers[best[2]] \o <<"}">>
               ELSE /\ last.response.kind = "error"
                    /\ last.response.code = "REFERENCE_NOT_FOUND"

\* A reference found where two cells tie for the greatest similarity and
\* the second row's cell is not the one named.
C21_Witness ==
    /\ last.op = "mcpp/find_reference"
    /\ last.params.column_name = Col.Name
    /\ last.response.kind = "result"
    /\ last.jaroWinkler[<<"a", "n", "a">>] = last.jaroWinkler[<<"b", "o">>]
    /\ last.response.placeholder = Placeholder.Amp

\* C22: a sensitive tool's result is cached under its tool_call_id and
\* only the summary (row count, column names, dataRefId) is returned,
\* without the rows; a non-sensitive tool's result is returned in full and
\* the data cache stays as it was.
C22_SensitiveIsCachedAndSummarised ==
    last.op = "tools/call"
        => IF last.tool.present /\ last.tool.isSensitive
           THEN /\ last.tool_call_id \in DOMAIN dataCache
                /\ dataCache[last.tool_call_id] = last.data
                /\ \A id \in DOMAIN last.before :
                       id # last.tool_call_id
                           => id \in DOMAIN dataCache
                              /\ dataCache[id] = last.before[id]
                /\ DOMAIN dataCache
                       = DOMAIN last.before \cup {last.tool_call_id}
                /\ last.content.kind = "summary"
                /\ last.content.summary
                       = [rowCount |-> Len(last.data.rows),
                          columnNames |-> last.data.headers,
                          dataRefId |-> last.tool_call_id]
                /\ last.content.data = NoEntry
           ELSE /\ dataCache = last.before
                /\ last.content.kind = "full"
                /\ last.content.data = last.data

\* A sensitive tool's second call put a table into a cache that held
\* another one.
C22_Witness ==
    /\ last.op = "tools/call"
    /\ last.tool.isSensitive
    /\ last.before # EmptyMap
    /\ last.tool_call_id \notin DOMAIN last.before
    /\ last.content.kind = "summary"
    /\ dataCache[last.tool_call_id] = last.data

\* C23: every cached entry has a non-empty call id: a sensitive tool
\* called without tool_call_id is cached under a fresh id made by the
\* server, which is returned as dataRefId.
C23_CallIdNeverEmpty ==
    /\ \A id \in DOMAIN dataCache : id # << >>
    /\ (last.op = "tools/call" /\ last.tool.isSensitive)
           => /\ last.content.summary.dataRefId # << >>
              /\ last.content.summary.dataRefId \in DOMAIN dataCache
              /\ last.tool_call_id = << >>
                     => last.content.summary.dataRefId
                            \notin DOMAIN last.before

\* C24: an evaluation whose effective data-usage permission is deny
\* fails with INVALID_DATA_USAGE, not with the INSUFFICIENT_PERMISSIONS of
\* a target denial.
C24_UsageDenialCode ==
    (/\ last.op = "validateDataAccess"
     /\ getEffectiveDataUsagePermission(
            last.tool, last.usageContext.data_usage, last.serverConfig)
            = "deny")
        => /\ ~last.result.allowed
           /\ last.result.error_code = "INVALID_DATA_USAGE"

\* C26: when no tool rule denied, a server target is denied if
\* default_target_policy.server is 'none' or a list that does not hold
\* the destination, and an llm target is denied if
\* default_target_policy.llm is 'deny'; with server 'all' and llm 'allow'
\* or 'prompt' the target step passes.
C26_GlobalTargetPolicy ==
    (/\ last.op = "validateDataAccess"
     /\ last.result.validation_details.data_usage_valid
     /\ ~(/\ last.tool.present /\ last.tool.hasTargetPermissions
          /\ Truthy(last.usageContext.target.destination)
          /\ ToolTargetVerdict(last.tool, last.usageContext.target) # Pass)
     /\ last.usageContext.target.type \in {"server", "llm"})
        => LET target == last.usageContext.target
               policy == last.serverConfig.default_target_policy
               denied ==
                   IF target.type = "server"
                   THEN \/ policy.server.k = "none"
                        \/ /\ policy.server.k = "list"
                           /\ ~Includes(policy.server.l, target.destination)
                   ELSE policy.llm = "deny"
           IN  IF denied
               THEN /\ ~last.result.allowed
                    /\ last.result.error_code = "INSUFFICIENT_PERMISSIONS"
                    /\ ~last.result.validation_details.target_permissions_valid
               ELSE last.result.validation_details.target_permissions_valid

\* C27: a client (or all) target passes the global target step unless
\* default_target_policy.client (or all) is 'deny', and is denied when it
\* is.
C27_OtherTargetTypes ==
    (/\ last.op = "validateDataAccess"
     /\ last.result.validation_details.data_usage_valid
     /\ ~(/\ last.tool.present /\ last.tool.hasTargetPermissions
          /\ Truthy(last.usageContext.target.destination)
          /\ ToolTargetVerdict(last.tool, last.usageContext.target) # Pass)
     /\ last.usageContext.target.type \in {"client", "all"})
        => (last.result.validation_details.target_permissions_valid
               <=> last.serverConfig.default_target_policy
                       [last.usageContext.target.type] # "deny")

\* C28: in an evaluation that reaches the consent check, display to a
\* client target needs no consent whatever the tool overrides say;
\* otherwise never_require_consent wins over always_require_consent;
\* otherwise always_require_consent requires consent with the tool's
\* custom_consent_message, also for destinations in
\* allowed_without_consent, trusted_targets, trusted_domains or an exempt
\* category. (A prompt permission still asks for confirmation afterwards.)
C28_ConsentPrecedence ==
    (/\ last.op = "validateDataAccess"
     /\ last.result.validation_details.data_usage_valid
     /\ last.result.validation_details.target_permissions_valid)
        => LET tool == last.tool
               check == last.result.validation_details.consent_check
               overrides == tool.present /\ tool.hasOverrides
               prompt ==
                   getEffectiveDataUsagePermission(
                       tool, last.usageContext.data_usage, last.serverConfig)
                       = "prompt"
           IN  IF /\ last.usageContext.data_usage = "display"
                  /\ last.usageContext.target.type = "client"
               THEN /\ ~last.result.threw
                    /\ \/ prompt
                       \/ /\ last.result.allowed
                          /\ ~check.consent_required
                          /\ check.reason = <<"display_to_client">>
               ELSE IF overrides /\ tool.never_require_consent
               THEN /\ ~last.result.threw
                    /\ \/ prompt
                       \/ /\ last.result.allowed
                          /\ ~check.consent_required
                          /\ check.reason = <<"tool_override_never">>
               ELSE IF overrides /\ tool.always_require_consent
               THEN /\ ~last.result.threw
                    /\ last.result.error_code = "CONSENT_REQUIRED"
                    /\ check.consent_required
                    /\ check.reason = <<"tool_override_always">>
                    /\ check.custom_message = tool.custom_consent_message
               ELSE TRUE

\* always_require_consent asks for consent, with the custom message, for a
\* destination of the tool's own allowed_without_consent list.
C28_Witness ==
    /\ last.op = "validateDataAccess"
    /\ last.tool.present /\ last.tool.hasOverrides
    /\ last.tool.always_require_consent
    /\ ~last.tool.never_require_consent
    /\ last.usageContext.target.destination = StrDest(Dest.gpt4)
    /\ Includes(last.tool.allowed_without_consent, StrDest(Dest.gpt4))
    /\ last.result.error_code = "CONSENT_REQUIRED"
    /\ last.result.validation_details.consent_check.reason
           = <<"tool_override_always">>
    /\ last.result.validation_details.consent_check.custom_message = "custom"

\* C29: in an evaluation that reaches the consent check, is not display
\* to a client and has no never/always tool override, a destination that
\* is in the tool's allowed_without_consent, in trusted_targets, matched
\* by a trusted_domains entry, or has a target_categories entry with
\* requires_consent = false needs no consent, whichever trigger flags are
\* set. (A prompt permission still asks for confirmation afterwards.)
C29_ConsentExemptions ==
    LET tool == last.tool
        destination == last.usageContext.target.destination
        overrides == tool.present /\ tool.hasOverrides
        targetInfo == CategoryOf(last.serverConfig, destination)
        exempt ==
            \/ overrides /\ Includes(tool.allowed_without_consent, destination)
            \/ Includes(last.serverConfig.trusted_targets, destination)
            \/ /\ destination.k = "string"
               /\ \E d \in last.serverConfig.trusted_domains :
                      DomainMatches(d, destination.s)
            \/ targetInfo.present /\ ~targetInfo.requires_consent
    IN  (/\ last.op = "validateDataAccess"
         /\ last.result.validation_details.data_usage_valid
         /\ last.result.validation_details.target_permissions_valid
         /\ ~(/\ last.usageContext.data_usage = "display"
              /\ last.usageContext.target.type = "client")
         /\ ~(overrides /\ tool.never_require_consent)
         /\ ~(overrides /\ tool.always_require_consent)
         /\ exempt)
            => /\ ~last.result.threw
               /\ \/ getEffectiveDataUsagePermission(
                          tool, last.usageContext.data_usage,
                          last.serverConfig) = "prompt"
                  \/ /\ last.result.allowed
                     /\ ~last.result.validation_details.consent_check
                             .consent_required

\* C30: in an evaluation that reaches the consent check and that no
\* earlier consent step decides (not display to a client, no never/always
\* override, no exempt destination; the target may have no destination),
\* consent is required if and only if a trigger fires, and the consent
\* check lists exactly the reasons of the triggers that fired.
C30_ConsentTriggers ==
    LET tool == last.tool
        target == last.usageContext.target
        destination == target.destination
        flags == last.serverConfig.require_consent_for
        overrides == tool.present /\ tool.hasOverrides
        targetInfo == CategoryOf(last.serverConfig, destination)
        check == last.result.validation_details.consent_check
        exempt ==
            \/ overrides /\ Includes(tool.allowed_without_consent, destination)
            \/ Includes(last.serverConfig.trusted_targets, destination)
            \/ /\ destination.k = "string"
               /\ \E d \in last.serverConfig.trusted_domains :
                      DomainMatches(d, destination.s)
            \/ targetInfo.present /\ ~targetInfo.requires_consent
        fired ==
            {"any_transfer_policy" : x \in
                 {1} \cap {IF /\ flags.any_transfer
                              /\ last.usageContext.data_usage = "transfer"
                           THEN 1 ELSE 0}}
            \cup {"sensitive_data_transfer" : x \in
                 {1} \cap {IF /\ flags.sensitive_data_transfer
                              /\ tool.present /\ tool.isSensitive
                           THEN 1 ELSE 0}}
            \cup {"llm_data_access_policy" : x \in
                 {1} \cap {IF flags.llm_data_access /\ target.type = "llm"
                           THEN 1 ELSE 0}}
            \cup {"llm_permanent_retention" : x \in
                 {1} \cap {IF /\ target.type = "llm" /\ targetInfo.present
                              /\ targetInfo.data_retention = "permanent"
                           THEN 1 ELSE 0}}
            \cup {"external_server_transfer" : x \in
                 {1} \cap {IF /\ flags.external_server_transfer
                              /\ target.type = "server" /\ targetInfo.present
                              /\ targetInfo.category = "external"
                           THEN 1 ELSE 0}}
    IN  (/\ last.op = "validateDataAccess"
         /\ last.result.validation_details.data_usage_valid
         /\ last.result.validation_details.target_permissions_valid
         /\ ~(/\ last.usageContext.data_usage = "display"
              /\ target.type = "client")
         /\ ~(overrides /\ tool.never_require_consent)
         /\ ~(overrides /\ tool.always_require_consent)
         /\ ~exempt)
            => /\ ~last.result.threw
               /\ IF fired = {}
                  THEN \/ getEffectiveDataUsagePermission(
                              tool, last.usageContext.data_usage,
                              last.serverConfig) = "prompt"
                       \/ /\ last.result.allowed
                          /\ ~check.consent_required
                  ELSE /\ last.result.error_code = "CONSENT_REQUIRED"
                       /\ check.consent_required
                       /\ Range(check.reason) = fired
                       /\ Len(check.reason) = Cardinality(fired)

\* C31: a find_reference request with its parameters answers with an
\* error for a missing or non-table cache entry (DATA_NOT_FOUND), with
\* INVALID_PARAMS for a column_name that is not a header, and with
\* REFERENCE_NOT_FOUND carrying the best observed similarity when the
\* table has no rows or no scanned cell is above the threshold; no error
\* carries a placeholder.
C31_FindReferenceErrors ==
    (/\ last.op = "mcpp/find_reference"
     /\ last.params.tool_call_id # << >>
     /\ last.params.keyword # << >>)
        => LET id == last.params.tool_call_id
               column == last.params.column_name
               entry == dataCache[id]
               scanned ==
                   { c \in (DOMAIN entry.rows) \X (DOMAIN entry.headers) :
                       column = << >> \/ entry.headers[c[2]] = column }
               score(c) ==
                   last.jaroWinkler[toLowerCase(String(entry.rows[c[1]][c[2]]))]
           IN  /\ last.response.kind = "error"
                      => last.response.placeholder = << >>
               /\ IF id \notin DOMAIN dataCache
                  THEN /\ last.response.kind = "error"
                       /\ last.response.code = "DATA_NOT_FOUND"
                  ELSE IF entry.type # "table"
                  THEN /\ last.response.kind = "error"
                       /\ last.response.code = "DATA_NOT_FOUND"
                  ELSE IF /\ column # << >>
                          /\ \A j \in DOMAIN entry.headers :
                                 entry.headers[j] # column
                  THEN /\ last.response.kind = "error"
                       /\ last.response.code = "INVALID_PARAMS"
                  ELSE IF \A c \in scanned : score(c) <= SIMILARITY_THRESHOLD
                  THEN /\ last.response.kind = "error"
                       /\ last.response.code = "REFERENCE_NOT_FOUND"
                       /\ \A c \in scanned :
                              score(c) <= last.response.similarity
                       /\ \/ \E c \in scanned :
                                 score(c) = last.response.similarity
                          \/ scanned = {} /\ last.response.similarity = -1
                  ELSE last.response.kind = "result"

\* No cell of column Name is above the threshold and the error carries
\* the greatest similarity seen, the threshold itself.
C31_Witness ==
    /\ last.op = "mcpp/find_reference"
    /\ last.params.tool_call_id = Call.T1
    /\ last.params.column_name = Col.Name
    /\ last.response.code = "REFERENCE_NOT_FOUND"
    /\ last.response.similarity = SIMILARITY_THRESHOLD

\* C32: a get_data request without tool_call_id fails with INVALID_PARAMS;
\* otherwise one whose tool_call_id is not in the data cache fails with
\* DATA_NOT_FOUND whatever its usage context; INSUFFICIENT_PERMISSIONS and
\* CONSENT_REQUIRED are returned only for a tool_call_id in the cache.
C32_GetDataErrorPrecedence ==
    last.op = "mcpp/get_data"
        => LET id == last.params.tool_call_id
           IN  /\ id = << >>
                      => /\ last.response.kind = "error"
                         /\ last.response.code = "INVALID_PARAMS"
               /\ (id # << >> /\ id \notin DOMAIN dataCache)
                      => /\ last.response.kind = "error"
                         /\ last.response.code = "DATA_NOT_FOUND"
               /\ last.response.code \in
                      {"INSUFFICIENT_PERMISSIONS", "CONSENT_REQUIRED"}
                      => id \in DOMAIN dataCache

\* An unknown id asked for with a usage context that the evaluation does
\* not allow: the answer is DATA_NOT_FOUND.
C32_Witness ==
    /\ last.op = "mcpp/get_data"
    /\ last.params.tool_call_id = Call.T2
    /\ Call.T2 \notin DOMAIN dataCache
    /\ last.params.usage_context.present
    /\ ~validateDataAccess(last.tool, last.params.usage_context,
                           defaultMcppConfig, nextRequestId + 1).allowed
    /\ last.response.code = "DATA_NOT_FOUND"

\* C33: mcpp/provide_consent answers INVALID_PARAMS when request_id or
\* decision is missing or the decision is neither allow nor deny, and
\* DATA_NOT_FOUND when no awaiter is waiting on the request_id (it was
\* never stored, it timed out, or it was resolved before); a call that
\* answers with an error leaves the pending-request table, the timers and
\* the decision cache as they were and settles no promise.
C33_ProvideConsentErrors ==
    [][(last' # last /\ last'.op = "mcpp/provide_consent")
          => LET params == last'.params
                 missing == params.request_id = 0 \/ params.decision = ""
             IN  /\ (missing \/ params.decision \notin Decisions)
                        => /\ last'.response.kind = "error"
                           /\ last'.response.code = "INVALID_PARAMS"
                 /\ (/\ ~missing
                     /\ params.decision \in Decisions
                     /\ ~Awaited(params.request_id))
                        => /\ last'.response.kind = "error"
                           /\ last'.response.code = "DATA_NOT_FOUND"
                 /\ last'.response.kind = "error"
                        => UNCHANGED <<pendingRequests, promises, timers,
                                       consentEntries, recorded>>]_vars

\* A decision given for a request that timed out, while another request
\* is still pending: DATA_NOT_FOUND, and the other request still waits.
C33_Witness ==
    /\ last.op = "mcpp/provide_consent"
    /\ last.response.code = "DATA_NOT_FOUND"
    /\ \E p \in DOMAIN promises :
           /\ promises[p].requestId = last.params.request_id
           /\ promises[p].state = "timeout"
    /\ \E p \in DOMAIN promises : promises[p].state = "pending"
    /\ pendingRequests # EmptyMap

\* C34: a step of get_data, find_reference or resolve_placeholders (each
\* with the policy evaluation it makes) leaves the data cache as it was,
\* a step of get_data or find_reference also leaves the decision cache
\* and the pending-request table as they were, and the data cache
\* changes only in the execution of a sensitive tool.
C34_Frame ==
    [][/\ last'.op \in {"mcpp/get_data", "mcpp/find_reference",
                        "mcpp/resolve_placeholders"}
           => dataCache' = dataCache
       /\ last'.op \in {"mcpp/get_data", "mcpp/find_reference"}
           => UNCHANGED <<consentEntries, pendingRequests>>
       /\ dataCache' # dataCache
           => /\ last'.op = "tools/call"
              /\ last'.tool.present
              /\ last'.tool.isSensitive]_vars

\* Cached data was served by get_data while a consent request is pending
\* and a decision is cached, and the entry is still in the data cache.
C34_Witness ==
    /\ last.op = "mcpp/get_data"
    /\ last.response.kind = "result"
    /\ last.params.tool_call_id \in DOMAIN dataCache
    /\ pendingRequests # EmptyMap
    /\ consentEntries # EmptyMap

\* C35: every result that validateDataAccess returns is well-formed:
\* allowed implies no error_code and no consent_request; not allowed
\* implies an error_code; a consent_request is present exactly when the
\* error_code is CONSENT_REQUIRED; and validation_details marks the
\* data-usage check or the target check as failed only if that check was
\* evaluated and failed.
C35_WellFormedResult ==
    (last.op = "validateDataAccess" /\ ~last.result.threw)
        => LET result == last.result
               details == result.validation_details
               effectivePermission ==
                   getEffectiveDataUsagePermission(
                       last.tool, last.usageContext.data_usage,
                       last.serverConfig)
               targetValidation ==
                   validateTargetPermissions(last.tool, last.usageContext,
                                             last.serverConfig)
           IN  /\ result.allowed
                      => /\ result.error_code = "none"
                         /\ ~result.consent_request.present
               /\ ~result.allowed => result.error_code # "none"
               /\ result.consent_request.present
                      <=> result.error_code = "CONSENT_REQUIRED"
               /\ ~details.data_usage_valid => effectivePermission = "deny"
               /\ ~details.target_permissions_valid
                      => /\ effectivePermission # "deny"
                         /\ ~targetValidation.allowed

\* C36: the placeholder of a successful find_reference, resolved against
\* the same data cache, resolves to the cell that was matched: the cell of
\* the row and column the response names, in the table of the call id
\* that was searched.
C36_FoundPlaceholderResolves ==
    last.op = "resolveWithTracking"
        => LET found == last.found
               entry == dataCache[found.params.tool_call_id]
               row == found.response.row_index + 1
               column == IndexOf(entry.headers, found.response.column_name)
           IN  /\ last.resolved.tracking.resolved_placeholders = 1
               /\ last.resolved.tracking.failed_placeholders = << >>
               /\ last.resolved.value = ValueData(entry.rows[row][column])

\* C37: resolve_placeholders returns a cell of a cached entry for a usage
\* context only if the data policy of the tool that produced the entry (a
\* sensitive tool of ZOHO_TOOLS: no other execution writes the cache)
\* allows that context, whichever tool the request names.
C37_ProducerPolicyGoverns ==
    (/\ last.op = "mcpp/resolve_placeholders"
     /\ last.params.usage_context.present
     /\ last.response.kind = "result"
     /\ last.response.resolution_status.resolved_placeholders > 0)
        => \A tool \in ZOHO_TOOLS :
               tool.isSensitive
                   => validateDataAccess(tool, last.params.usage_context,
                                         defaultMcppConfig,
                                         nextRequestId + 1).allowed

\* C38: for a target whose destination is a list of strings the
\* evaluation returns a result and does not throw, and when the usage is
\* not denied and some listed destination is in the tool's
\* blocked_targets, or is missing from a list-valued allowed_targets, the
\* request is denied as a target denial.
C38_ListDestination ==
    (/\ last.op = "validateDataAccess"
     /\ last.usageContext.target.destination.k = "array")
        => LET tool == last.tool
               listed == Range(last.usageContext.target.destination.a)
               refused ==
                   /\ tool.present /\ tool.hasTargetPermissions
                   /\ \E d \in listed :
                          \/ d \in tool.blocked_targets
                          \/ /\ tool.allowed_targets.k = "list"
                             /\ d \notin tool.allowed_targets.l
           IN  /\ ~last.result.threw
               /\ (/\ refused
                   /\ getEffectiveDataUsagePermission(
                          tool, last.usageContext.data_usage,
                          last.serverConfig) # "deny")
                      => /\ ~last.result.allowed
                         /\ last.result.error_code = "INSUFFICIENT_PERMISSIONS"
                         /\ ~last.result.validation_details
                                 .target_permissions_valid

\* C39: an evaluation is exempted from consent as trusted_domain only if
\* the destination is identical to a literal trusted_domains entry or, for
\* an entry '*.S', ends with '.S'; a destination that ends with the
\* characters of S without the dot before them is not exempted.
C39_TrustedDomainSuffix ==
    (/\ last.op = "validateDataAccess"
     /\ ~last.result.threw
     /\ last.result.validation_details.consent_check.reason
            = <<"trusted_domain">>)
        => LET destination == last.usageContext.target.destination
           IN  /\ destination.k = "string"
               /\ \E domain \in last.serverConfig.trusted_domains :
                      IF StartsWith(domain, WildcardPrefix)
                      THEN EndsWith(destination.s,
                                    SubSeq(domain, 2, Len(domain)))
                      ELSE destination.s = domain

\* C40: whatever the order of storePendingRequest, resolveConsentRequest
\* and timeouts, and also when a request id is stored again while it is
\* pending, the pending table holds exactly the request ids with an
\* awaiter that has neither a decision nor a timeout, and
\* resolveConsentRequest returns true for an id that has such an awaiter.
C40_PendingTableIsExact ==
    /\ [](DOMAIN pendingRequests = { id \in RequestIds : Awaited(id) })
    /\ [][\A requestId \in RequestIds, decision \in Decisions :
              (ResolveStep(requestId, decision) /\ Awaited(requestId))
                  => last'.result]_vars

====
